---- MODULE Spec2Model ----
(***************************************************************************)
(* Pocket Hold'em server core: RoomManager, GameController, PokerEngine    *)
(* and the socket gateway (index.ts), modelled as one state machine for    *)
(* one room of the process-wide singletons.                                *)
(***************************************************************************)
EXTENDS Integers, Sequences, FiniteSets, TLC

\* ------------------------------------------------------------------------
\* Bounds of the model and the room configuration it explores
\* ------------------------------------------------------------------------
\* hands played before the model stops starting new ones
MaxHands == 2
\* room.config.initialChips / smallBlind / bigBlind of the modelled room
InitialChips == 4
SmallBlind == 1
BigBlind == 2
\* room.config.maxPlayers: length of seatMap
MaxSeats == 3
\* GameController.MAX_REQUESTS, scaled down from 500 so eviction is reachable
MAX_REQUESTS == 2
\* number of distinct random sources the shuffle is explored with
NumSeeds == 2

Null == -1

\* ------------------------------------------------------------------------
\* Generic sequence helpers (Array.prototype.filter / map / sort / find)
\* ------------------------------------------------------------------------
Range(s) == {s[i] : i \in DOMAIN s}

SumSeq(s) ==
  LET RECURSIVE Go(_)
      Go(i) == IF i > Len(s) THEN 0 ELSE s[i] + Go(i + 1)
  IN Go(1)

Filter(s, Test(_)) == SelectSeq(s, Test)

\* call by value: a statement runs on the computed results of the statements
\* before it.  Known(x) holds of every value and has x computed.
Known(x) == x = x

MapSeq(s, F(_)) == [i \in DOMAIN s |-> F(s[i])]

\* stable insertion sort, ascending by Key (Array.prototype.sort is stable)
SortAsc(s, Key(_)) ==
  LET RECURSIVE Ins(_, _)
      Ins(x, t) == IF t = <<>> THEN <<x>>
                   ELSE IF Key(x) < Key(Head(t)) THEN <<x>> \o t
                   ELSE <<Head(t)>> \o Ins(x, Tail(t))
      RECURSIVE Go(_)
      Go(i) == IF i = 0 THEN <<>> ELSE Ins(s[i], Go(i - 1))
  IN Go(Len(s))

\* stable sort, descending by Key
SortDesc(s, Key(_)) ==
  LET Neg(x) == 0 - Key(x) IN SortAsc(s, Neg)

Max2(a, b) == IF a >= b THEN a ELSE b
Min2(a, b) == IF a <= b THEN a ELSE b

\* ------------------------------------------------------------------------
\* PokerEngine: deck
\* ------------------------------------------------------------------------
Suits == <<"SPADES", "HEARTS", "DIAMONDS", "CLUBS">>

createDeck ==
  [k \in 1..52 |-> [suit |-> Suits[((k - 1) \div 13) + 1],
                    rank |-> ((k - 1) % 13) + 2]]

\* Math.floor(Math.random() * (i + 1)) for the 0-based index i, as produced
\* by the random source numbered seed; every value lies in 0..i
RandomIndex(seed, i) ==
  CASE seed = 0 -> i
    [] seed = 1 -> (i * 7 + 3) % (i + 1)
    [] seed = 2 -> (i * 5 + 1) % (i + 1)
    [] OTHER    -> (i * seed) % (i + 1)

\* Fisher-Yates, i from length-1 down to 1 (0-based), swapping deck[i], deck[j].
\* Steps(d, hi, lo) is the loop body run for i = hi, hi-1, .., lo in that
\* order; the range is halved so that the evaluation does not nest per card.
shuffleDeck(deck, seed) ==
  LET Swapped(d, i, j) == [d EXCEPT ![i + 1] = d[j + 1], ![j + 1] = d[i + 1]]
      RECURSIVE Steps(_, _, _)
      Steps(d, hi, lo) ==
        IF hi < lo \/ hi >= Len(d) THEN d
        ELSE IF hi = lo THEN Swapped(d, hi, RandomIndex(seed, hi))
        ELSE Steps(Steps(d, hi, lo + ((hi - lo + 1) \div 2)),
                   lo + ((hi - lo + 1) \div 2) - 1, lo)
  IN Steps(deck, Len(deck) - 1, 1)

\* deck.splice(0, count): the cards drawn and the deck that remains
drawCards(deck, count) ==
  LET n == Min2(count, Len(deck))
  IN [cards |-> SubSeq(deck, 1, n), deck |-> SubSeq(deck, n + 1, Len(deck))]

\* the burnt card is dealt to the board together with the count drawn
dealCommunityCardsWithBurn(deck, count) ==
  drawCards(deck, count + 1)

\* burn one card, then draw count
dealCommunityCards(deck, count) ==
  drawCards(drawCards(deck, 1).deck, count)

\* ------------------------------------------------------------------------
\* PokerEngine: hand evaluation
\* ------------------------------------------------------------------------
HIGH_CARD == 1
ONE_PAIR == 2
TWO_PAIR == 3
THREE_OF_A_KIND == 4
STRAIGHT == 5
FLUSH == 6
FULL_HOUSE == 7
FOUR_OF_A_KIND == 8
STRAIGHT_FLUSH == 9
ROYAL_FLUSH == 10

CardRank(c) == c.rank

isFlush(cards) == \A i \in DOMAIN cards : cards[i].suit = cards[1].suit

\* getStraight that keeps the ace in front of A-5-4-3-2
getStraightAceHigh(sortedCards) ==
  LET ranks == MapSeq(sortedCards, CardRank)
  IN IF \A i \in 2..Len(ranks) : ranks[i] = ranks[i - 1] - 1
     THEN sortedCards
     ELSE IF ranks = <<14, 5, 4, 3, 2>> THEN sortedCards ELSE <<>>

\* sortedCards is in descending rank order; returns the straight's cards
\* (high card first) or <<>> for null
getStraight(sortedCards) ==
  LET ranks == MapSeq(sortedCards, CardRank)
  IN IF \A i \in 2..Len(ranks) : ranks[i] = ranks[i - 1] - 1
     THEN sortedCards
     ELSE IF ranks = <<14, 5, 4, 3, 2>>
          THEN <<sortedCards[2], sortedCards[3], sortedCards[4],
                 sortedCards[5], sortedCards[1]>>
          ELSE <<>>

\* ranks that occur exactly n times (n = 1 also takes what is left), descending
getGroups(cards) ==
  LET Count(r) == Cardinality({i \in DOMAIN cards : cards[i].rank = r})
      RanksWith(n) ==
        LET RECURSIVE Go(_)
            Go(r) == IF r < 2 THEN <<>>
                     ELSE IF Count(r) = n THEN <<r>> \o Go(r - 1)
                     ELSE Go(r - 1)
        IN Go(14)
  IN [four |-> RanksWith(4), three |-> RanksWith(3),
      pairs |-> RanksWith(2), singles |-> RanksWith(1)]

\* rank * 10^10 + kickers[i] * 10^(8 - 2i).  The value exceeds 32 bits, so
\* it is held as two base-10^8 digits: score = hi * 10^8 + lo, lo < 10^8
calculateScore(rank, kickers) ==
  LET K(i) == IF i <= Len(kickers) THEN kickers[i] ELSE 0
  IN [hi |-> rank * 100 + K(1),
      lo |-> K(2) * 1000000 + K(3) * 10000 + K(4) * 100 + K(5)]

ScoreGT(a, b) == a.hi > b.hi \/ (a.hi = b.hi /\ a.lo > b.lo)

Take(s, n) == SubSeq(s, 1, Min2(n, Len(s)))

evaluateFiveCards(cards) ==
  LET Ranked(sorted, flush, straight, groups) ==
        CASE flush /\ straight # <<>> /\ straight[1].rank = 14
               -> [rank |-> ROYAL_FLUSH, kickers |-> <<>>]
          [] flush /\ straight # <<>>
               -> [rank |-> STRAIGHT_FLUSH, kickers |-> <<straight[1].rank>>]
          [] Len(groups.four) = 1
               -> [rank |-> FOUR_OF_A_KIND,
                   kickers |-> <<groups.four[1]>> \o Take(groups.singles, 1)]
          [] Len(groups.three) = 1 /\ Len(groups.pairs) >= 1
               -> [rank |-> FULL_HOUSE,
                   kickers |-> <<groups.three[1], groups.pairs[1]>>]
          [] flush
               -> [rank |-> FLUSH, kickers |-> MapSeq(sorted, CardRank)]
          [] straight # <<>>
               -> [rank |-> STRAIGHT, kickers |-> <<straight[1].rank>>]
          [] Len(groups.three) = 1
               -> [rank |-> THREE_OF_A_KIND,
                   kickers |-> <<groups.three[1]>> \o Take(groups.singles, 2)]
          [] Len(groups.pairs) >= 2
               -> [rank |-> TWO_PAIR,
                   kickers |-> Take(groups.pairs, 2) \o Take(groups.singles, 1)]
          [] Len(groups.pairs) = 1
               -> [rank |-> ONE_PAIR,
                   kickers |-> <<groups.pairs[1]>> \o Take(groups.singles, 3)]
          [] OTHER
               -> [rank |-> HIGH_CARD, kickers |-> MapSeq(sorted, CardRank)]
      Scored(rk) == [rank |-> rk.rank, kickers |-> rk.kickers,
                     score |-> calculateScore(rk.rank, rk.kickers)]
      OfSorted(sorted) ==
        Scored(Ranked(sorted, isFlush(sorted), getStraight(sorted),
                      getGroups(sorted)))
  IN OfSorted(SortDesc(cards, CardRank))

\* all k-element sub-sequences of arr, those containing the first element first
getCombinations(arr0, k0) ==
  LET RECURSIVE Go(_, _)
      Go(arr, k) ==
        IF k = 0 THEN << <<>> >>
        ELSE IF Len(arr) < k THEN <<>>
        ELSE LET rest == Tail(arr)
                 PutFirst(combo) == <<Head(arr)>> \o combo
             IN MapSeq(Go(rest, k - 1), PutFirst) \o Go(rest, k)
  IN Go(arr0, k0)

\* best of the 21 five-card hands; the first one with the highest score: a
\* later hand replaces the best so far only with a strictly higher score.
\* BestIn(lo, hi) is the loop's result over combos[lo..hi].
evaluateHand(holeCards, communityCards) ==
  LET Better(e, best) == IF ScoreGT(e.score, best.score) THEN e ELSE best
      BestOf(combos) ==
        LET RECURSIVE BestIn(_, _)
            BestIn(lo, hi) ==
              IF lo = hi THEN evaluateFiveCards(combos[lo])
              ELSE Better(BestIn(lo + ((hi - lo + 1) \div 2), hi),
                          BestIn(lo, lo + ((hi - lo + 1) \div 2) - 1))
        IN BestIn(1, Len(combos))
  IN BestOf(getCombinations(holeCards \o communityCards, 5))

\* ------------------------------------------------------------------------
\* Player
\* ------------------------------------------------------------------------
PublicFields ==
  {"id", "seatIndex", "chips", "status", "currentBet", "isDealer",
   "isCurrentTurn", "hasActed", "isFolded", "isAllIn", "isHost", "isReady"}

\* new Player({chips: 0, isHost, socketId})
NewPlayer(id, host, socket) ==
  [id |-> id, seatIndex |-> Null, chips |-> 0, status |-> "SPECTATING",
   currentBet |-> 0, totalBetThisHand |-> 0, isDealer |-> FALSE,
   isCurrentTurn |-> FALSE, hasActed |-> FALSE, isFolded |-> FALSE,
   isAllIn |-> FALSE, isHost |-> host, isReady |-> FALSE,
   holeCards |-> <<>>, socketId |-> socket]

\* chips actually taken by deductChips(amount)
deductActual(pl, amount) == Min2(amount, pl.chips)

deductChips(pl, amount) ==
  LET actualAmount == deductActual(pl, amount)
      nowAllIn == pl.chips - actualAmount = 0 /\ pl.status = "ACTIVE"
  IN [pl EXCEPT !.chips = @ - actualAmount,
                !.currentBet = @ + actualAmount,
                !.totalBetThisHand = @ + actualAmount,
                !.isAllIn = IF nowAllIn THEN TRUE ELSE @,
                !.status = IF nowAllIn THEN "ALL_IN" ELSE @]

addChips(pl, amount) ==
  [pl EXCEPT !.chips = @ + amount,
             !.status = IF @ = "ELIMINATED" /\ pl.chips + amount > 0
                        THEN "WAITING" ELSE @]

fold(pl) == [pl EXCEPT !.isFolded = TRUE, !.status = "FOLDED", !.hasActed = TRUE]

resetForNewHand(pl) ==
  [pl EXCEPT !.holeCards = <<>>, !.currentBet = 0, !.totalBetThisHand = 0,
             !.isDealer = FALSE, !.isCurrentTurn = FALSE, !.hasActed = FALSE,
             !.isFolded = FALSE, !.isAllIn = FALSE, !.isReady = FALSE,
             !.status = IF pl.seatIndex # Null
                        THEN (IF pl.chips > 0 THEN "ACTIVE" ELSE "ELIMINATED")
                        ELSE @]

resetForNewRound(pl) == [pl EXCEPT !.currentBet = 0, !.hasActed = FALSE]

\* the hole cards taken from a busted player whose status stays as it was
markAsEliminatedInName(pl) == [pl EXCEPT !.holeCards = <<>>]

markAsEliminated(pl) == [pl EXCEPT !.status = "ELIMINATED", !.holeCards = <<>>]

\* sitDown that lets the player in at once instead of waiting for a hand
playerSitDownActive(pl, seat) == [pl EXCEPT !.seatIndex = seat, !.status = "ACTIVE"]

\* Player.sitDown(seatIndex)
playerSitDown(pl, seat) == [pl EXCEPT !.seatIndex = seat, !.status = "WAITING"]

\* Player.standUp(): the seat is cleared before resetForNewHand reads it
playerStandUp(pl) ==
  resetForNewHand([pl EXCEPT !.seatIndex = Null, !.status = "SPECTATING"])

canPlay(pl) ==
  /\ pl.seatIndex # Null
  /\ pl.chips > 0
  /\ pl.status \notin {"ELIMINATED", "SPECTATING", "WAITING"}

isInHand(pl) == canPlay(pl) /\ ~pl.isFolded

canAct(pl) == isInHand(pl) /\ ~pl.isAllIn /\ pl.isCurrentTurn

\* a snapshot of a player that also holds the hole cards
toPublicInfoWithCards(pl) == [f \in PublicFields \cup {"holeCards"} |-> pl[f]]

toPublicInfo(pl) == [f \in PublicFields |-> pl[f]]

\* ------------------------------------------------------------------------
\* PokerEngine: seats, blinds, acting order.  A list of Player objects is a
\* sequence of player ids; ps maps an id to the player's record.
\* ------------------------------------------------------------------------
SortBySeat(ps, ids) ==
  LET Seat(p) == ps[p].seatIndex IN SortAsc(ids, Seat)

\* the first element satisfying Test, or Null (Array.prototype.find)
FindFirst(s, Test(_)) ==
  LET hit == Filter(s, Test) IN IF hit = <<>> THEN Null ELSE hit[1]

\* seats in order, rotated to start behind the dealer
FromDealer(ps, seated, dealerIndex) ==
  LET After(p) == ps[p].seatIndex > dealerIndex
      first == FindFirst(seated, After)
      dealerPos == IF first = Null THEN Null
                   ELSE CHOOSE i \in DOMAIN seated : seated[i] = first
  IN IF dealerPos = Null THEN seated
     ELSE SubSeq(seated, dealerPos, Len(seated)) \o SubSeq(seated, 1, dealerPos - 1)

getActivePlayersFromDealer(ps, players, dealerIndex) ==
  LET Can(p) == ps[p].seatIndex # Null /\ canPlay(ps[p])
  IN FromDealer(ps, SortBySeat(ps, Filter(players, Can)), dealerIndex)

\* the button given to the lowest seat that can play, wherever it was
getNextDealerIndexFromFirst(ps, currentDealerIndex, players) ==
  LET Elig(p) == /\ ps[p].seatIndex # Null
                 /\ ps[p].status # "ELIMINATED"
                 /\ ps[p].chips > 0
      eligiblePlayers == SortBySeat(ps, Filter(players, Elig))
  IN IF eligiblePlayers = <<>> THEN currentDealerIndex
     ELSE ps[eligiblePlayers[1]].seatIndex

getNextDealerIndex(ps, currentDealerIndex, players) ==
  LET Elig(p) == /\ ps[p].seatIndex # Null
                 /\ ps[p].status # "ELIMINATED"
                 /\ ps[p].chips > 0
      eligiblePlayers == SortBySeat(ps, Filter(players, Elig))
      After(p) == ps[p].seatIndex > currentDealerIndex
      nextPlayer == FindFirst(eligiblePlayers, After)
  IN IF eligiblePlayers = <<>> THEN currentDealerIndex
     ELSE IF nextPlayer # Null THEN ps[nextPlayer].seatIndex
     ELSE ps[eligiblePlayers[1]].seatIndex

\* the blinds of a ring game whatever the number of players
getBlindsIndexesOfRing(ps, dealerIndex, players) ==
  LET IsSeated(p) == ps[p].seatIndex # Null
      orderedPlayers == FromDealer(ps, SortBySeat(ps, Filter(players, IsSeated)),
                                   dealerIndex)
  IN [smallBlindIndex |-> ps[orderedPlayers[1]].seatIndex,
      bigBlindIndex |-> ps[orderedPlayers[2]].seatIndex]

\* requires at least two seated players in the list (the caller checks)
getBlindsIndexes(ps, dealerIndex, players) ==
  LET IsSeated(p) == ps[p].seatIndex # Null
      orderedPlayers == FromDealer(ps, SortBySeat(ps, Filter(players, IsSeated)),
                                   dealerIndex)
  IN IF Len(orderedPlayers) = 2
     THEN [smallBlindIndex |-> dealerIndex,
           bigBlindIndex |-> ps[orderedPlayers[1]].seatIndex]
     ELSE [smallBlindIndex |-> ps[orderedPlayers[1]].seatIndex,
           bigBlindIndex |-> ps[orderedPlayers[2]].seatIndex]

\* two cards each, in order from the dealer's left, to those who canPlay
dealHoleCards(ps, players, deck, dealerIndex) ==
  LET activePlayers == getActivePlayersFromDealer(ps, players, dealerIndex)
      RECURSIVE Go(_, _, _)
      Go(i, q, d) ==
        IF i > Len(activePlayers) THEN [ps |-> q, deck |-> d]
        ELSE LET drawn == drawCards(d, 2)
             IN Go(i + 1,
                   [q EXCEPT ![activePlayers[i]].holeCards = drawn.cards],
                   drawn.deck)
  IN Go(1, ps, deck)

\* seat of the next player able to act behind currentIndex, or Null
getNextActingPlayer(ps, players, currentIndex) ==
  LET Acting(p) == /\ ps[p].seatIndex # Null
                   /\ ~ps[p].isFolded
                   /\ ~ps[p].isAllIn
                   /\ ps[p].status \notin {"ELIMINATED", "WAITING"}
      actingPlayers == SortBySeat(ps, Filter(players, Acting))
      After(p) == ps[p].seatIndex > currentIndex
      nextPlayer == FindFirst(actingPlayers, After)
  IN IF actingPlayers = <<>> THEN Null
     ELSE IF nextPlayer # Null THEN ps[nextPlayer].seatIndex
     ELSE ps[actingPlayers[1]].seatIndex

\* ------------------------------------------------------------------------
\* PokerEngine: side pots and awarding
\* ------------------------------------------------------------------------
\* the contribution calculateSidePots reads from a player
PotContribution(pl) == pl.currentBet

\* the side pots with every contributor eligible, folded or not
calculateSidePotsForAll(ps, players) ==
  LET HasBet(p) == PotContribution(ps[p]) > 0
      Bet(p) == PotContribution(ps[p])
      NotFolded(p) == TRUE
      sortedPlayers == SortAsc(Filter(players, HasBet), Bet)
      n == Len(sortedPlayers)
      RECURSIVE Go(_, _)
      Go(i, prevBet) ==
        IF i > n THEN <<>>
        ELSE LET currentBet == Bet(sortedPlayers[i])
                 betDiff == currentBet - prevBet
                 potAmount == betDiff * (n - i + 1)
                 eligiblePlayerIds ==
                   Filter(SubSeq(sortedPlayers, i, n), NotFolded)
                 survivors == Filter(sortedPlayers, NotFolded)
                 here ==
                   IF betDiff <= 0 THEN <<>>
                   ELSE IF eligiblePlayerIds # <<>>
                   THEN <<[amount |-> potAmount,
                           eligiblePlayerIds |-> eligiblePlayerIds]>>
                   ELSE IF survivors # <<>>
                   THEN <<[amount |-> potAmount,
                           eligiblePlayerIds |-> <<survivors[1]>>]>>
                   ELSE <<>>
             IN here \o Go(i + 1, currentBet)
  IN Go(1, 0)

calculateSidePots(ps, players) ==
  LET HasBet(p) == PotContribution(ps[p]) > 0
      Bet(p) == PotContribution(ps[p])
      NotFolded(p) == ~ps[p].isFolded
      sortedPlayers == SortAsc(Filter(players, HasBet), Bet)
      n == Len(sortedPlayers)
      RECURSIVE Go(_, _)
      Go(i, prevBet) ==
        IF i > n THEN <<>>
        ELSE LET currentBet == Bet(sortedPlayers[i])
                 betDiff == currentBet - prevBet
                 potAmount == betDiff * (n - i + 1)
                 eligiblePlayerIds ==
                   Filter(SubSeq(sortedPlayers, i, n), NotFolded)
                 survivors == Filter(sortedPlayers, NotFolded)
                 here ==
                   IF betDiff <= 0 THEN <<>>
                   ELSE IF eligiblePlayerIds # <<>>
                   THEN <<[amount |-> potAmount,
                           eligiblePlayerIds |-> eligiblePlayerIds]>>
                   ELSE IF survivors # <<>>
                   THEN <<[amount |-> potAmount,
                           eligiblePlayerIds |-> <<survivors[1]>>]>>
                   ELSE <<>>
             IN here \o Go(i + 1, currentBet)
  IN Go(1, 0)

\* the tied winners of one pot, in the order in which the pot lists them
PotWinnersAsListed(ps, pot, hands) ==
  LET HasHand(p) == p \in DOMAIN hands
      eligibleWithHands == Filter(pot.eligiblePlayerIds, HasHand)
      IsMax(p) == \A q \in Range(eligibleWithHands) :
                    ~ScoreGT(hands[q].score, hands[p].score)
  IN Filter(eligibleWithHands, IsMax)

\* the tied winners of one pot, in seat order
PotWinners(ps, pot, hands) ==
  LET HasHand(p) == p \in DOMAIN hands
      eligibleWithHands == Filter(pot.eligiblePlayerIds, HasHand)
      IsMax(p) == \A q \in Range(eligibleWithHands) :
                    ~ScoreGT(hands[q].score, hands[p].score)
  IN SortBySeat(ps, Filter(eligibleWithHands, IsMax))

\* hands: player id -> evaluated hand, for the players that were evaluated;
\* the result maps every listed player to the chips won
awardPots(ps, pots, hands, players) ==
  LET Share(pot, p) ==
        LET sortedWinners == PotWinners(ps, pot, hands)
            pos == IF p \in Range(sortedWinners)
                   THEN CHOOSE i \in DOMAIN sortedWinners : sortedWinners[i] = p
                   ELSE 0
        IN IF pos = 0 THEN 0
           ELSE (pot.amount \div Len(sortedWinners))
                  + (IF pos <= pot.amount % Len(sortedWinners) THEN 1 ELSE 0)
      Won(p) ==
        LET RECURSIVE Go(_)
            Go(i) == IF i > Len(pots) THEN 0 ELSE Share(pots[i], p) + Go(i + 1)
        IN Go(1)
  IN [p \in Range(players) |-> Won(p)]

\* ------------------------------------------------------------------------
\* GameController.  st is the mutable state a controller method touches:
\*   ps     room.players (id -> Player)      gs    room.gameState
\*   timer  timeoutTimers.get(room.id)       proc  processedRequests
\*   queue  requestQueue                     uuids number of uuidv4() calls
\*   clock  number of deadlines taken from Date.now()
\* order is the insertion order of room.players.
\* ------------------------------------------------------------------------
NullGS == [isNull |-> TRUE]

\* GameController.getSeatedPlayers
getSeatedPlayers(ps, order) ==
  LET IsSeated(p) == ps[p].seatIndex # Null
  IN SortBySeat(ps, Filter(order, IsSeated))

\* GameController.getActivePlayers
getActivePlayers(ps, order) ==
  LET Active(p) == ~ps[p].isFolded /\ ~ps[p].isAllIn /\ ps[p].status = "ACTIVE"
  IN Filter(getSeatedPlayers(ps, order), Active)

PlayerAtSeat(ps, players, seat) ==
  LET AtSeat(p) == ps[p].seatIndex = seat IN FindFirst(players, AtSeat)

\* pots[0].amount += amount, creating the pot when the list is empty
addToMainPot(pots, amount) ==
  LET base == IF pots = <<>>
              THEN <<[amount |-> 0, eligiblePlayerIds |-> <<>>]>> ELSE pots
  IN [base EXCEPT ![1].amount = @ + amount]

\* set isCurrentTurn on the player at seat, stamp the deadline, arm the timer
giveTurn(st, players, seat) ==
  LET pl == IF seat = Null THEN Null ELSE PlayerAtSeat(st.ps, players, seat)
  IN IF pl = Null THEN st
     ELSE [st EXCEPT !.ps[pl].isCurrentTurn = TRUE,
                     !.gs.turnTimeout = st.clock + 1,
                     !.clock = @ + 1,
                     !.timer = pl]

\* the players startNewHand deals in
HandEntrants(ps, order) ==
  LET HasChips(p) == ps[p].chips > 0 /\ ps[p].status # "ELIMINATED"
  IN Filter(getSeatedPlayers(ps, order), HasChips)

\* startNewHand throws NOT_ENOUGH_ACTIVE_PLAYERS unless this holds
canStartNewHand(ps, order) == Len(HandEntrants(ps, order)) >= 2

\* a hand that starts with stateVersion 1 whatever the game state before
restartedStateVersion(gameState) == 1

\* (room.gameState?.stateVersion ?? 0) + 1
nextStateVersion(gameState) ==
  (IF gameState = NullGS THEN 0 ELSE gameState.stateVersion) + 1

\* startNewHand, steps 9 and 10: the first actor, the timer, the version
handStarted(s, activePlayers, firstActorIndex) ==
  CASE Known(firstActorIndex) ->
    [giveTurn([s EXCEPT !.gs.currentPlayerIndex = firstActorIndex],
              activePlayers, firstActorIndex)
       EXCEPT !.gs.stateVersion = @ + 1]

\* step 8: the hole cards
holeCardsDealt(s, activePlayers, dealt) ==
  CASE Known(dealt) ->
    handStarted([s EXCEPT !.ps = dealt.ps, !.gs.deck = dealt.deck],
                activePlayers,
                getNextActingPlayer(dealt.ps, activePlayers,
                                    s.gs.bigBlindIndex))

dealHand(s, activePlayers) ==
  CASE Known(s) ->
    holeCardsDealt(s, activePlayers,
                   dealHoleCards(s.ps, activePlayers, s.gs.deck,
                                 s.gs.dealerIndex))

\* step 7: the blinds
postSmallBlind(s, activePlayers, smallBlind) ==
  LET Post(sb) ==
        IF sb = Null THEN s
        ELSE [s EXCEPT
                !.gs.pots[1].amount = @ + deductActual(s.ps[sb], smallBlind),
                !.ps[sb] = deductChips(@, smallBlind)]
  IN CASE Known(s) ->
       Post(PlayerAtSeat(s.ps, activePlayers, s.gs.smallBlindIndex))

postBigBlind(s, activePlayers, bigBlind) ==
  LET Post(bb) ==
        IF bb = Null THEN s
        ELSE [s EXCEPT
                !.gs.pots[1].amount = @ + deductActual(s.ps[bb], bigBlind),
                !.ps[bb] = [deductChips(@, bigBlind) EXCEPT !.hasActed = TRUE]]
  IN CASE Known(s) ->
       Post(PlayerAtSeat(s.ps, activePlayers, s.gs.bigBlindIndex))

\* steps 4 to 6: the players reset for the hand, the ids, the game state
createHand(st, players, activePlayers, dealerIndex, blinds, bigBlind, seed) ==
  LET old == st.gs
      Activated(r) ==
        IF r.chips > 0 /\ r.seatIndex # Null /\ r.status # "ELIMINATED"
        THEN [r EXCEPT !.status = "ACTIVE"] ELSE r
      Reset(p) ==
        Activated([resetForNewHand(st.ps[p]) EXCEPT
                     !.isDealer = (st.ps[p].seatIndex = dealerIndex)])
  IN [st EXCEPT
        !.ps = [p \in DOMAIN st.ps |->
                  IF p \in Range(players) THEN Reset(p) ELSE st.ps[p]],
        !.gs = [phase |-> "PRE_FLOP",
                communityCards |-> <<>>,
                pots |-> <<[amount |-> 0,
                            eligiblePlayerIds |-> activePlayers]>>,
                currentPlayerIndex |-> Null,
                dealerIndex |-> dealerIndex,
                smallBlindIndex |-> blinds.smallBlindIndex,
                bigBlindIndex |-> blinds.bigBlindIndex,
                currentBet |-> bigBlind,
                minRaise |-> bigBlind,
                roundIndex |-> (IF old = NullGS THEN 0 ELSE old.roundIndex) + 1,
                turnTimeout |-> 0,
                stateVersion |-> nextStateVersion(old),
                handId |-> st.uuids + 1,
                roundId |-> st.uuids + 2,
                deck |-> shuffleDeck(createDeck, seed),
                handNumber |-> (IF old = NullGS THEN 0 ELSE old.handNumber) + 1,
                actionHistory |-> <<>>],
        !.uuids = @ + 2]

\* steps 2 and 3: the dealer and the blinds
placeBlinds(st, players, activePlayers, dealerIndex, bigBlind, seed) ==
  CASE Known(dealerIndex) ->
    createHand(st, players, activePlayers, dealerIndex,
               getBlindsIndexes(st.ps, dealerIndex, activePlayers),
               bigBlind, seed)

enterHand(st, players, activePlayers, bigBlind, smallBlind, seed) ==
  CASE Known(players) /\ Known(activePlayers) ->
    dealHand(
      postBigBlind(
        postSmallBlind(
          placeBlinds(st, players, activePlayers,
                      getNextDealerIndex(
                        st.ps,
                        IF st.gs = NullGS THEN -1 ELSE st.gs.dealerIndex,
                        activePlayers),
                      bigBlind, seed),
          activePlayers, smallBlind),
        activePlayers, bigBlind),
      activePlayers)

startNewHand(st, order, bigBlind, smallBlind, seed) ==
  enterHand(st, getSeatedPlayers(st.ps, order), HandEntrants(st.ps, order),
            bigBlind, smallBlind, seed)

\* GameController.isRoundComplete
isRoundComplete(ps, players, currentBet) ==
  LET StillIn(p) == /\ ps[p].seatIndex # Null
                    /\ ~ps[p].isFolded
                    /\ ps[p].status \notin {"ELIMINATED", "WAITING"}
      activePlayers == Filter(players, StillIn)
      NotAllIn(p) == ~ps[p].isAllIn
      nonAllInPlayers == Filter(activePlayers, NotAllIn)
  IN \/ Len(activePlayers) <= 1
     \/ nonAllInPlayers = <<>>
     \/ \A p \in Range(nonAllInPlayers) :
          ps[p].hasActed /\ ps[p].currentBet = currentBet

\* the players the controller still counts as contesting the hand
remainingPlayers(ps, players) ==
  LET Remains(p) == /\ isInHand(ps[p])
                    /\ ~ps[p].isFolded
                    /\ ps[p].status # "ELIMINATED"
  IN Filter(players, Remains)

\* deal the board up to five cards: three when it is empty, else one at a time
fillCommunityCards(gs0, needDeck) ==
  LET RECURSIVE Go(_)
      Go(gs) ==
        IF Len(gs.communityCards) >= 5 \/ (needDeck /\ gs.deck = <<>>) THEN gs
        ELSE LET d == dealCommunityCards(gs.deck,
                        IF gs.communityCards = <<>> THEN 3 ELSE 1)
             IN Go([gs EXCEPT !.communityCards = @ \o d.cards, !.deck = d.deck])
  IN Go(gs0)

PhaseAfter(phase) ==
  CASE phase = "PRE_FLOP" -> "FLOP"
    [] phase = "FLOP"     -> "TURN"
    [] phase = "TURN"     -> "RIVER"
    [] phase = "RIVER"    -> "SHOWDOWN"
    [] OTHER              -> "PRE_FLOP"

\* advancePhaseOrShowdown once the bets are reset and the pots recomputed
phaseAdvanced(st, st1, remaining) ==
  LET \* phaseOrder[indexOf(phase) + 1]; undefined behind SHOWDOWN, and
      \* PRE_FLOP for a phase that is not in the list (indexOf = -1)
      nextPhase == IF st.gs.phase = "SHOWDOWN" THEN "SHOWDOWN"
                   ELSE PhaseAfter(st.gs.phase)
      NotAllIn(p) == ~st.ps[p].isAllIn
  IN CASE Known(st1) /\ Known(remaining) ->
       IF Len(remaining) <= 1 THEN [st |-> st, next |-> "END_HAND"]
       ELSE IF nextPhase = "SHOWDOWN" THEN [st |-> st1, next |-> "SHOWDOWN"]
       ELSE IF Len(Filter(remaining, NotAllIn)) <= 1
       THEN [st |-> [st1 EXCEPT !.gs = fillCommunityCards(@, FALSE)],
             next |-> "SHOWDOWN"]
       ELSE [st |-> st1, next |-> nextPhase]

closeRound(st, players) ==
  CASE Known(players) ->
    phaseAdvanced(st,
                  [st EXCEPT
                     !.ps = [p \in DOMAIN st.ps |->
                               IF p \in Range(players)
                               THEN resetForNewRound(st.ps[p]) ELSE st.ps[p]],
                     !.gs.pots = calculateSidePots(st.ps, players)],
                  remainingPlayers(st.ps, players))

\* returns the state after, and next: a phase, "SHOWDOWN" or "END_HAND"
advancePhaseOrShowdown(st, order) ==
  closeRound(st, getSeatedPlayers(st.ps, order))

\* startBettingRound from the first actor on; without an actor the round is
\* closed at once and the result is dropped
roundOpened(st1, order, players, firstActorIndex) ==
  LET Turned(st2) ==
        IF firstActorIndex # Null THEN giveTurn(st2, players, firstActorIndex)
        ELSE advancePhaseOrShowdown(st2, order).st
  IN CASE Known(firstActorIndex) ->
       [Turned([st1 EXCEPT !.gs.currentPlayerIndex = firstActorIndex])
          EXCEPT !.gs.stateVersion = @ + 1]

betsCleared(st1, order, players) ==
  CASE Known(st1) ->
    roundOpened(st1, order, players,
                getNextActingPlayer(st1.ps, players, st1.gs.dealerIndex))

openRound(st, order, phase, players) ==
  LET Dealt(d) ==
        [st.gs EXCEPT
           !.phase = phase,
           !.roundId = st.uuids + 1,
           !.currentBet = 0,
           !.communityCards = IF phase = "FLOP" THEN d.cards ELSE @ \o d.cards,
           !.deck = d.deck]
  IN CASE Known(players) ->
       betsCleared(
         [st EXCEPT
            !.ps = [p \in DOMAIN st.ps |->
                      IF p \in Range(players)
                      THEN [st.ps[p] EXCEPT !.currentBet = 0,
                                            !.hasActed = FALSE,
                                            !.isCurrentTurn = FALSE]
                      ELSE st.ps[p]],
            !.gs = Dealt(IF phase = "FLOP"
                         THEN dealCommunityCards(st.gs.deck, 3)
                         ELSE IF phase \in {"TURN", "RIVER"}
                         THEN dealCommunityCards(st.gs.deck, 1)
                         ELSE [cards |-> <<>>, deck |-> st.gs.deck]),
            !.uuids = @ + 1],
         order, players)

startBettingRound(st, order, phase) ==
  openRound(st, order, phase, getActivePlayers(st.ps, order))

\* ------------------------------------------------------------------------
\* GameController: player actions
\* ------------------------------------------------------------------------
Ok(st) == [st |-> st, success |-> TRUE, error |-> "NONE"]
Fail(st, code) == [st |-> st, success |-> FALSE, error |-> code]

\* a raise or a raising all-in: everyone else must act again
reopenBetting(ps, order, actor) ==
  [p \in DOMAIN ps |->
     IF /\ p \in Range(getSeatedPlayers(ps, order))
        /\ p # actor /\ ~ps[p].isFolded /\ ~ps[p].isAllIn
     THEN [ps[p] EXCEPT !.hasActed = FALSE] ELSE ps[p]]

executeFold(st, p) ==
  Ok([st EXCEPT !.ps[p] = [fold(@) EXCEPT !.isCurrentTurn = FALSE]])

executeCheck(st, p) ==
  IF st.ps[p].currentBet < st.gs.currentBet
  THEN Fail(st, "CANNOT_CHECK_MUST_CALL")
  ELSE Ok([st EXCEPT !.ps[p].hasActed = TRUE, !.ps[p].isCurrentTurn = FALSE])

executeCall(st, p) ==
  LET callAmount == st.gs.currentBet - st.ps[p].currentBet
      actualAmount == deductActual(st.ps[p], callAmount)
  IN IF callAmount <= 0 THEN Fail(st, "NOTHING_TO_CALL")
     ELSE Ok([st EXCEPT
                !.ps[p] = [deductChips(@, callAmount) EXCEPT
                             !.hasActed = TRUE, !.isCurrentTurn = FALSE],
                !.gs.pots = addToMainPot(@, actualAmount)])

executeRaise(st, order, p, raiseAmount) ==
  LET pl == st.ps[p]
      minTotalBet == st.gs.currentBet + st.gs.minRaise
      amountToAdd == raiseAmount - pl.currentBet
      actualAmount == deductActual(pl, amountToAdd)
      raiseBy == raiseAmount - st.gs.currentBet
      ps1 == [st.ps EXCEPT ![p] = deductChips(@, amountToAdd)]
      ps2 == reopenBetting(ps1, order, p)
  IN IF raiseAmount < minTotalBet /\ raiseAmount < pl.chips + pl.currentBet
     THEN Fail(st, "RAISE_TOO_SMALL")
     ELSE IF amountToAdd > pl.chips THEN Fail(st, "NOT_ENOUGH_CHIPS")
     ELSE Ok([st EXCEPT
                !.ps = [ps2 EXCEPT ![p].hasActed = TRUE,
                                   ![p].isCurrentTurn = FALSE],
                !.gs.pots = addToMainPot(@, actualAmount),
                !.gs.currentBet = raiseAmount,
                !.gs.minRaise = Max2(@, raiseBy)])

executeAllIn(st, order, p) ==
  LET pl == st.ps[p]
      allInAmount == pl.chips
      totalBet == pl.currentBet + allInAmount
      ps1 == [st.ps EXCEPT ![p] = deductChips(@, allInAmount)]
      raises == totalBet > st.gs.currentBet
      ps2 == IF raises THEN reopenBetting(ps1, order, p) ELSE ps1
  IN Ok([st EXCEPT
           !.ps = [ps2 EXCEPT ![p].hasActed = TRUE, ![p].isCurrentTurn = FALSE],
           !.gs.pots = addToMainPot(@, allInAmount),
           !.gs.currentBet = IF raises THEN totalBet ELSE @,
           !.gs.minRaise = IF raises THEN Max2(@, totalBet - st.gs.currentBet)
                           ELSE @])

\* the switch over payload.action
executeAction(st, order, p, payload) ==
  CASE payload.action = "FOLD"   -> executeFold(st, p)
    [] payload.action = "CHECK"  -> executeCheck(st, p)
    [] payload.action = "CALL"   -> executeCall(st, p)
    [] payload.action = "RAISE"  -> executeRaise(st, order, p, payload.amount)
    [] payload.action = "ALL_IN" -> executeAllIn(st, order, p)
    [] OTHER                     -> Fail(st, "INVALID_ACTION")

\* the checks without the one for a repeated request id
validateActionOnce(st, p, payload) ==
  IF payload.roundIndex # st.gs.roundIndex THEN "STALE_REQUEST"
  ELSE IF st.ps[p].seatIndex # st.gs.currentPlayerIndex THEN "NOT_YOUR_TURN"
  ELSE IF ~canAct(st.ps[p]) THEN "CANNOT_ACT"
  ELSE "NONE"

\* the checks without the one for the round index
validateActionAnyRound(st, p, payload) ==
  IF payload.requestId \in st.proc THEN "DUPLICATE_REQUEST"
  ELSE IF st.ps[p].seatIndex # st.gs.currentPlayerIndex THEN "NOT_YOUR_TURN"
  ELSE IF ~canAct(st.ps[p]) THEN "CANNOT_ACT"
  ELSE "NONE"

\* the checks with turn ownership checked before the round index
validateActionTurnFirst(st, p, payload) ==
  IF payload.requestId \in st.proc THEN "DUPLICATE_REQUEST"
  ELSE IF st.ps[p].seatIndex # st.gs.currentPlayerIndex THEN "NOT_YOUR_TURN"
  ELSE IF payload.roundIndex # st.gs.roundIndex THEN "STALE_REQUEST"
  ELSE IF ~canAct(st.ps[p]) THEN "CANNOT_ACT"
  ELSE "NONE"

\* the four checks processAction makes before it touches anything
validateAction(st, p, payload) ==
  IF payload.requestId \in st.proc THEN "DUPLICATE_REQUEST"
  ELSE IF payload.roundIndex # st.gs.roundIndex THEN "STALE_REQUEST"
  ELSE IF st.ps[p].seatIndex # st.gs.currentPlayerIndex THEN "NOT_YOUR_TURN"
  ELSE IF ~canAct(st.ps[p]) THEN "CANNOT_ACT"
  ELSE "NONE"

\* the timer is cleared once validation has passed, before the action runs
clearTimerBeforeAction(st) == [st EXCEPT !.timer = Null]

addProcessedRequest(st, requestId) ==
  LET full == Cardinality(st.proc) >= MAX_REQUESTS
      evict == full /\ st.queue # <<>>
      proc1 == IF evict THEN st.proc \ {Head(st.queue)} ELSE st.proc
      queue1 == IF evict THEN Tail(st.queue) ELSE st.queue
  IN [st EXCEPT !.proc = proc1 \cup {requestId},
                !.queue = Append(queue1, requestId)]

turnPassed(st, ps1, players, nextIndex) ==
  CASE Known(nextIndex) ->
    giveTurn([st EXCEPT !.ps = ps1, !.gs.currentPlayerIndex = nextIndex],
             players, nextIndex)

turnsCleared(st, ps1, players) ==
  CASE Known(ps1) ->
    turnPassed(st, ps1, players,
               getNextActingPlayer(ps1, players, st.gs.currentPlayerIndex))

passTurn(st, players) ==
  CASE Known(players) ->
    turnsCleared(st,
                 [p \in DOMAIN st.ps |->
                    IF p \in Range(players)
                    THEN [st.ps[p] EXCEPT !.isCurrentTurn = FALSE]
                    ELSE st.ps[p]],
                 players)

moveToNextPlayer(st, order) == passTurn(st, getActivePlayers(st.ps, order))

ActionFailed(st, code) ==
  [st |-> st, success |-> FALSE, error |-> code,
   shouldAdvancePhase |-> FALSE, shouldEndHand |-> FALSE]

\* processAction, the end: the turn passes unless the round or the hand is
\* over, and the version is bumped
actionClosed(st2, order, shouldAdvancePhase, shouldEndHand) ==
  CASE Known(shouldAdvancePhase) /\ Known(shouldEndHand) ->
    [st |-> [(IF ~shouldEndHand /\ ~shouldAdvancePhase
              THEN moveToNextPlayer(st2, order) ELSE st2)
               EXCEPT !.gs.stateVersion = @ + 1],
     success |-> TRUE, error |-> "NONE",
     shouldAdvancePhase |-> shouldAdvancePhase,
     shouldEndHand |-> shouldEndHand]

actionJudged(st2, order, allPlayers) ==
  CASE Known(allPlayers) ->
    actionClosed(st2, order,
                 isRoundComplete(st2.ps, allPlayers, st2.gs.currentBet),
                 Len(remainingPlayers(st2.ps, allPlayers)) <= 1)

actionLogged(st2, order) ==
  CASE Known(st2) -> actionJudged(st2, order, getSeatedPlayers(st2.ps, order))

\* the request id is remembered, the action joins the history
actionRecorded(st1, order, p, payload) ==
  CASE Known(st1) ->
    actionLogged([st1 EXCEPT !.gs.actionHistory =
                    Append(@, [playerId |-> p, action |-> payload.action,
                               amount |-> payload.amount,
                               phase |-> st1.gs.phase])],
                 order)

actionExecuted(ex, order, p, payload) ==
  CASE Known(ex) ->
    IF ~ex.success THEN ActionFailed(ex.st, ex.error)
    ELSE actionRecorded(addProcessedRequest(ex.st, payload.requestId),
                        order, p, payload)

actionValidated(st, order, p, payload, verdict) ==
  IF verdict # "NONE" THEN ActionFailed(st, verdict)
  ELSE actionExecuted(executeAction(clearTimerBeforeAction(st), order, p,
                                    payload),
                      order, p, payload)

\* room.gameState is not null here (the callers check)
processAction(st, order, p, payload) ==
  actionValidated(st, order, p, payload, validateAction(st, p, payload))

\* the action the timer plays for the player
TimeoutAction(st, p) ==
  IF st.ps[p].currentBet < st.gs.currentBet THEN "FOLD" ELSE "CHECK"

\* the request id of a timeout is "timeout-" + a fresh uuid: a negative number
handleTimeout(st, order, playerId) ==
  IF playerId \notin DOMAIN st.ps \/ st.gs = NullGS
  THEN ActionFailed(st, "INVALID_STATE")
  ELSE IF st.ps[playerId].seatIndex # st.gs.currentPlayerIndex
  THEN ActionFailed(st, "NOT_YOUR_TURN")
  ELSE processAction([st EXCEPT !.uuids = @ + 1], order, playerId,
                     [action |-> TimeoutAction(st, playerId), amount |-> 0,
                      roundIndex |-> st.gs.roundIndex,
                      requestId |-> 0 - (st.uuids + 1)])

\* ------------------------------------------------------------------------
\* GameController: showdown and settlement
\* ------------------------------------------------------------------------
\* the players evaluateShowdown evaluates
showdownPlayers(ps, players) ==
  LET Shows(p) == /\ isInHand(ps[p])
                  /\ ~ps[p].isFolded
                  /\ Len(ps[p].holeCards) = 2
  IN Filter(players, Shows)

\* evaluateShowdown, the end: the winners are paid
winnersPaid(st, gs1, shown, pots, winnings, paid) ==
  LET Shown(p) == [playerId |-> p, cards |-> st.ps[p].holeCards]
      Winner(p) == [playerId |-> p, amount |-> winnings[p],
                    cards |-> st.ps[p].holeCards]
  IN CASE Known(paid) ->
       [st |-> [st EXCEPT
                  !.ps = [p \in DOMAIN st.ps |->
                            IF p \in Range(paid)
                            THEN addChips(st.ps[p], winnings[p])
                            ELSE st.ps[p]],
                  !.gs = [gs1 EXCEPT !.pots = pots]],
        threw |-> FALSE,
        result |-> [winners |-> MapSeq(paid, Winner), pots |-> pots,
                    showdownCards |-> MapSeq(shown, Shown)]]

potsAwarded(st, players, gs1, shown, pots, winnings) ==
  LET Won(p) == winnings[p] > 0
  IN CASE Known(winnings) ->
       winnersPaid(st, gs1, shown, pots, winnings, Filter(players, Won))

potsCounted(st, players, gs1, shown, playerHands, pots) ==
  CASE Known(pots) ->
    potsAwarded(st, players, gs1, shown, pots,
                awardPots(st.ps, pots, playerHands, players))

handsEvaluated(st, players, gs1, shown, playerHands) ==
  CASE Known(playerHands) ->
    potsCounted(st, players, gs1, shown, playerHands,
                IF gs1.pots = <<>> \/ gs1.pots[1].amount = 0
                THEN calculateSidePots(st.ps, players) ELSE gs1.pots)

handsShown(st, players, gs1, shown) ==
  CASE Known(shown) ->
    handsEvaluated(st, players, gs1, shown,
                   [p \in Range(shown) |->
                      evaluateHand(st.ps[p].holeCards, gs1.communityCards)])

boardFilled(st, players, gs1) ==
  CASE Known(players) /\ Known(gs1) ->
    handsShown(st, players, gs1, showdownPlayers(st.ps, players))

evaluateShowdown(st, order) ==
  boardFilled(st, getSeatedPlayers(st.ps, order),
              fillCommunityCards(st.gs, TRUE))

settleSingleWinner(st, order) ==
  LET players == getSeatedPlayers(st.ps, order)
      remaining == remainingPlayers(st.ps, players)
      PotAmount(pot) == pot.amount
      totalPot == SumSeq(MapSeq(st.gs.pots, PotAmount))
  IN IF remaining = <<>>
     THEN \* throw new Error('NO_WINNER_FOUND')
          [st |-> st, threw |-> TRUE,
           result |-> [winners |-> <<>>, pots |-> st.gs.pots,
                       showdownCards |-> <<>>]]
     ELSE LET winner == remaining[1]
          IN [st |-> [st EXCEPT !.ps[winner] = addChips(@, totalPot)],
              threw |-> FALSE,
              result |-> [winners |-> <<[playerId |-> winner,
                                         amount |-> totalPot,
                                         cards |-> <<>>]>>,
                          pots |-> st.gs.pots,
                          showdownCards |-> <<>>]]

\* endHand, the end: the players without chips are eliminated
bustedEliminated(settled, players, ps1) ==
  LET WithChips(p) == ps1[p].chips > 0
  IN CASE Known(ps1) ->
       [st |-> [settled.st EXCEPT !.ps = ps1,
                                  !.gs.phase = "SHOWDOWN",
                                  !.gs.stateVersion = @ + 1],
        threw |-> FALSE, result |-> settled.result,
        gameEnded |-> Len(Filter(players, WithChips)) <= 1]

handSettled(st0, players, settled) ==
  CASE Known(settled) ->
    IF settled.threw
    THEN [st |-> st0, threw |-> TRUE, result |-> settled.result,
          gameEnded |-> FALSE]
    ELSE bustedEliminated(settled, players,
                          [p \in DOMAIN settled.st.ps |->
                             IF /\ p \in Range(players)
                                /\ settled.st.ps[p].chips = 0
                             THEN markAsEliminated(settled.st.ps[p])
                             ELSE settled.st.ps[p]])

timerStopped(st0, order, players) ==
  CASE Known(st0) /\ Known(players) ->
    handSettled(st0, players,
                IF Len(remainingPlayers(st0.ps, players)) <= 1
                THEN settleSingleWinner(st0, order)
                ELSE evaluateShowdown(st0, order))

\* returns the state after, the hand result, gameEnded, and threw: whether
\* settleSingleWinner threw (then only the timer has been cleared)
endHand(st, order) ==
  timerStopped([st EXCEPT !.timer = Null], order,
               getSeatedPlayers(st.ps, order))

\* ------------------------------------------------------------------------
\* RoomManager.  From here on S is the whole server state: the fields of st
\* above, and
\*   order, hostId, isPlaying, seatMap   the room
\*   sockMap   socketPlayerMap (socket -> player id or Null)
\*   roomOf    the players playerRoomMap maps to the room
\*   gone      sockets that have disconnected
\*   ioRoom    sockets joined to the socket.io room of the room
\*   nextHand  the 3 s timer that starts the next hand is pending
\*   up        the server process is running
\*   sent      the events emitted by the handler that ran last
\* ------------------------------------------------------------------------
PublicGameFields ==
  {"phase", "communityCards", "pots", "currentPlayerIndex", "dealerIndex",
   "smallBlindIndex", "bigBlindIndex", "currentBet", "minRaise", "roundIndex",
   "turnTimeout", "stateVersion", "handId", "roundId"}

getPublicGameState(gameState) == [f \in PublicGameFields |-> gameState[f]]

getPublicRoomInfo(S) ==
  LET Pub(p) == toPublicInfo(S.ps[p])
  IN [hostId |-> S.hostId,
      players |-> MapSeq(S.order, Pub),
      gameState |-> IF S.gs = NullGS THEN NullGS ELSE getPublicGameState(S.gs),
      isPlaying |-> S.isPlaying]

getPlayerBySocketId(S, socket) ==
  LET playerId == S.sockMap[socket]
  IN IF playerId = Null \/ playerId \notin S.roomOf \/ playerId \notin DOMAIN S.ps
     THEN Null ELSE playerId

\* sitDown that does not test whether the player has a seat already
sitDownErrorOfSeatOnly(S, playerId, seatIndex) ==
  IF playerId \notin S.roomOf THEN "PLAYER_NOT_IN_ROOM"
  ELSE IF playerId \notin DOMAIN S.ps THEN "PLAYER_NOT_FOUND"
  ELSE IF seatIndex < 0 \/ seatIndex >= MaxSeats THEN "INVALID_SEAT_INDEX"
  ELSE IF S.seatMap[seatIndex + 1] # Null THEN "SEAT_OCCUPIED"
  ELSE "NONE"

\* RoomManager.sitDown: the error code, or "NONE"
sitDownError(S, playerId, seatIndex) ==
  IF playerId \notin S.roomOf THEN "PLAYER_NOT_IN_ROOM"
  ELSE IF playerId \notin DOMAIN S.ps THEN "PLAYER_NOT_FOUND"
  ELSE IF seatIndex < 0 \/ seatIndex >= MaxSeats THEN "INVALID_SEAT_INDEX"
  ELSE IF S.seatMap[seatIndex + 1] # Null THEN "SEAT_OCCUPIED"
  ELSE IF S.ps[playerId].seatIndex # Null THEN "ALREADY_SEATED"
  ELSE "NONE"

sitDown(S, playerId, seatIndex) ==
  LET seated == [playerSitDown(S.ps[playerId], seatIndex) EXCEPT
                   !.chips = InitialChips]
  IN [S EXCEPT !.seatMap[seatIndex + 1] = playerId,
               !.ps[playerId] = seated]

\* standUp allowed whether or not a game is being played
standUpErrorAnyTime(S, playerId) ==
  IF playerId \notin S.roomOf THEN "PLAYER_NOT_IN_ROOM"
  ELSE IF playerId \notin DOMAIN S.ps THEN "PLAYER_NOT_FOUND"
  ELSE IF S.ps[playerId].seatIndex = Null THEN "NOT_SEATED"
  ELSE "NONE"

\* RoomManager.standUp: the error code, or "NONE"
standUpError(S, playerId) ==
  IF playerId \notin S.roomOf THEN "PLAYER_NOT_IN_ROOM"
  ELSE IF playerId \notin DOMAIN S.ps THEN "PLAYER_NOT_FOUND"
  ELSE IF S.ps[playerId].seatIndex = Null THEN "NOT_SEATED"
  ELSE IF S.isPlaying THEN "GAME_IN_PROGRESS"
  ELSE "NONE"

standUp(S, playerId) ==
  [S EXCEPT !.seatMap[S.ps[playerId].seatIndex + 1] = Null,
            !.ps[playerId] = playerStandUp(@)]

\* joinRoom that sets a member that comes back up as a new player
rejoinRoomAsNew(S, socket, playerId) ==
  [S EXCEPT !.ps[playerId] = NewPlayer(playerId, S.ps[playerId].isHost, socket),
            !.sockMap[socket] = playerId]

\* RoomManager.joinRoom with an existingPlayerId the room knows
rejoinRoom(S, socket, playerId) ==
  [S EXCEPT !.ps[playerId].socketId = socket,
            !.sockMap[socket] = playerId]

\* RoomManager.joinRoom for a new player, whose id is a fresh uuid
joinRoom(S, socket) ==
  LET playerId == S.uuids + 1
  IN [S EXCEPT !.ps = [p \in DOMAIN S.ps \cup {playerId} |->
                         IF p = playerId THEN NewPlayer(playerId, FALSE, socket)
                         ELSE S.ps[p]],
               !.order = Append(@, playerId),
               !.roomOf = @ \cup {playerId},
               !.sockMap[socket] = playerId,
               !.uuids = playerId]

\* RoomManager.leaveRoom returns null: nothing is changed
leaveRoomRefused(S, playerId) ==
  \/ playerId \notin S.roomOf
  \/ playerId \notin DOMAIN S.ps
  \/ S.isPlaying /\ S.ps[playerId].seatIndex # Null

\* RoomManager.leaveRoom that never hands the room to another member
leaveRoomKeepingHost(S, playerId) ==
  LET S1 == IF S.ps[playerId].seatIndex # Null THEN standUp(S, playerId) ELSE S
      socket == S.ps[playerId].socketId
      Stays(p) == p # playerId
  IN [S1 EXCEPT
        !.ps = [p \in DOMAIN S1.ps \ {playerId} |-> S1.ps[p]],
        !.order = Filter(@, Stays),
        !.roomOf = @ \ {playerId},
        !.sockMap = [k \in DOMAIN @ |->
                       IF k = socket THEN Null ELSE @[k]]]

\* RoomManager.leaveRoom where it is not refused.  The room whose last
\* member has left is destroyed: it is the room without members.  A host
\* that leaves hands the room to the member that joined first.
leaveRoom(S, playerId) ==
  LET S1 == IF S.ps[playerId].seatIndex # Null THEN standUp(S, playerId) ELSE S
      socket == S.ps[playerId].socketId
      Stays(p) == p # playerId
      S2 == [S1 EXCEPT
               !.ps = [p \in DOMAIN S1.ps \ {playerId} |-> S1.ps[p]],
               !.order = Filter(@, Stays),
               !.roomOf = @ \ {playerId},
               !.sockMap = [k \in DOMAIN @ |->
                              IF k = socket THEN Null ELSE @[k]]]
  IN IF S2.order = <<>> THEN S2
     ELSE IF S.ps[playerId].isHost
     THEN [S2 EXCEPT !.ps[S2.order[1]].isHost = TRUE, !.hostId = S2.order[1]]
     ELSE S2

\* the room has been destroyed (rooms.get finds nothing)
roomDestroyed(S) == S.order = <<>>

\* RoomManager.kickPlayer: the error code, or "NONE"
kickPlayerError(S, hostId, targetPlayerId) ==
  IF hostId \notin S.roomOf THEN "HOST_NOT_IN_ROOM"
  ELSE IF hostId \notin DOMAIN S.ps THEN "NOT_HOST"
  ELSE IF ~S.ps[hostId].isHost THEN "NOT_HOST"
  ELSE IF S.isPlaying THEN "GAME_IN_PROGRESS"
  ELSE IF hostId = targetPlayerId THEN "CANNOT_KICK_SELF"
  ELSE IF targetPlayerId \notin DOMAIN S.ps THEN "TARGET_NOT_FOUND"
  ELSE "NONE"

kickPlayer(S, targetPlayerId) ==
  IF leaveRoomRefused(S, targetPlayerId) THEN S ELSE leaveRoom(S, targetPlayerId)

\* ------------------------------------------------------------------------
\* index.ts: outgoing events.  An event records its type, the sockets it is
\* sent to, its stateVersion, its room snapshot (or NoRoom), the hole cards
\* it carries (player id -> cards) and its error code.
\* ------------------------------------------------------------------------
NoRoom == [none |-> TRUE]
NoCards == [p \in {} |-> <<>>]

Event(type, to, version, room, cards, code) ==
  [type |-> type, to |-> to, stateVersion |-> version, room |-> room,
   cards |-> cards, code |-> code]

emit(S, e) == [S EXCEPT !.sent = Append(@, e)]

\* stateVersion as the handlers outside a hand read it
versionOf(S) == IF S.gs = NullGS THEN 0 ELSE S.gs.stateVersion

sendError(S, socket, code) ==
  emit(S, Event("ERROR", {socket}, Null, NoRoom, NoCards, code))

\* io.to(room.id).emit(type, {room, stateVersion})
broadcastRoomState(S, type) ==
  emit(S, Event(type, S.ioRoom, versionOf(S), getPublicRoomInfo(S), NoCards, ""))

\* io.to(room.id).emit(PLAYER_TURN, ...) when there is a current player
emitPlayerTurn(S) ==
  IF S.gs.currentPlayerIndex = Null THEN S
  ELSE emit(S, Event("PLAYER_TURN", S.ioRoom, S.gs.stateVersion, NoRoom,
                     NoCards, ""))

\* DEAL_CARDS to the socket of every player that holds cards
emitDealCards(S) ==
  LET Dealt(p) == S.ps[p].socketId # Null /\ S.ps[p].holeCards # <<>>
      Deal(p) == Event("DEAL_CARDS", {S.ps[p].socketId}, S.gs.stateVersion,
                       NoRoom, (p :> S.ps[p].holeCards), "")
  IN [S EXCEPT !.sent = @ \o MapSeq(Filter(S.order, Dealt), Deal)]

\* the hole cards a hand result shows, by player
resultCards(result) ==
  LET shown == {result.showdownCards[i].playerId : i \in DOMAIN result.showdownCards}
      won == {result.winners[i].playerId :
                i \in {j \in DOMAIN result.winners : result.winners[j].cards # <<>>}}
      CardsOf(p) ==
        IF p \in shown
        THEN (CHOOSE e \in Range(result.showdownCards) : e.playerId = p).cards
        ELSE (CHOOSE e \in Range(result.winners) : e.playerId = p).cards
  IN [p \in shown \cup won |-> CardsOf(p)]

\* ------------------------------------------------------------------------
\* index.ts: game flow helpers.  They return [S, threw]: the state after,
\* and whether an exception left the helper.
\* ------------------------------------------------------------------------
Done(S) == [S |-> S, threw |-> FALSE]
Threw(S) == [S |-> S, threw |-> TRUE]

handResultEvent(S, result) ==
  [type |-> "HAND_RESULT", to |-> S.ioRoom, stateVersion |-> S.gs.stateVersion,
   room |-> NoRoom, cards |-> resultCards(result), code |-> "",
   winners |-> result.winners, pots |-> result.pots,
   showdownCards |-> result.showdownCards]

\* GAME_ENDED carries the room, and winner: result.winners[0]
gameEndedEvent(S, result) ==
  LET none == IF result.winners = <<>> THEN TRUE
              ELSE result.winners[1].cards = <<>>
      cards == IF none THEN NoCards
               ELSE (result.winners[1].playerId :> result.winners[1].cards)
  IN Event("GAME_ENDED", S.ioRoom, S.gs.stateVersion, getPublicRoomInfo(S),
           cards, "")

gameClosed(S2, result) ==
  CASE Known(S2) -> Done(emit(S2, gameEndedEvent(S2, result)))

resultSent(ended, S1) ==
  CASE Known(S1) ->
    IF ended.gameEnded
    THEN gameClosed([S1 EXCEPT !.isPlaying = FALSE, !.gs.phase = "IDLE"],
                    ended.result)
    ELSE Done([S1 EXCEPT !.nextHand = TRUE])

handEnded(ended) ==
  CASE Known(ended) ->
    IF ended.threw THEN Threw(ended.st)
    ELSE resultSent(ended,
                    emit(ended.st, handResultEvent(ended.st, ended.result)))

endCurrentHand(S) == handEnded(endHand(S, S.order))

roundSynced(S2) ==
  CASE Known(S2) ->
    Done(emitPlayerTurn(
           emit(S2, Event("SYNC_STATE", S2.ioRoom, S2.gs.stateVersion,
                          getPublicRoomInfo(S2), NoCards, ""))))

roundAdvanced(adv) ==
  CASE Known(adv) ->
    IF adv.next \in {"END_HAND", "SHOWDOWN"} THEN endCurrentHand(adv.st)
    ELSE roundSynced(startBettingRound(adv.st, adv.st.order, adv.next))

actionBroadcast(S1, result) ==
  CASE Known(S1) ->
    IF result.shouldEndHand THEN endCurrentHand(S1)
    ELSE IF result.shouldAdvancePhase
    THEN roundAdvanced(advancePhaseOrShowdown(S1, S1.order))
    ELSE Done(emitPlayerTurn(S1))

handleActionResult(S, result) ==
  actionBroadcast(broadcastRoomState(S, "PLAYER_ACTED"), result)

\* the events that announce a hand that has just been started; first is
\* GAME_STARTED or SYNC_STATE
announceHand(S, first) ==
  CASE Known(S) -> emitPlayerTurn(emitDealCards(broadcastRoomState(S, first)))

startNewHandInRoom(S, seed) ==
  IF canStartNewHand(S.ps, S.order)
  THEN announceHand(startNewHand(S, S.order, BigBlind, SmallBlind, seed),
                    "SYNC_STATE")
  ELSE [S EXCEPT !.isPlaying = FALSE]

\* ------------------------------------------------------------------------
\* index.ts: socket handlers, as functions of the state before
\* ------------------------------------------------------------------------
onSitDown(S, socket, seatIndex) ==
  LET playerId == getPlayerBySocketId(S, socket)
      error == sitDownError(S, playerId, seatIndex)
  IN IF playerId = Null THEN sendError(S, socket, "NOT_IN_ROOM")
     ELSE IF error # "NONE" THEN sendError(S, socket, error)
     ELSE broadcastRoomState(sitDown(S, playerId, seatIndex), "PLAYER_SAT")

onStandUp(S, socket) ==
  LET playerId == getPlayerBySocketId(S, socket)
      error == standUpError(S, playerId)
  IN IF playerId = Null THEN sendError(S, socket, "NOT_IN_ROOM")
     ELSE IF error # "NONE" THEN sendError(S, socket, error)
     ELSE broadcastRoomState(standUp(S, playerId), "PLAYER_STOOD")

\* isPlaying is set before startNewHand, which throws when fewer than two
\* seated players have chips
gamePlaying(S1, socket, seed) ==
  CASE Known(S1) ->
    IF ~canStartNewHand(S1.ps, S1.order)
    THEN sendError(S1, socket, "START_GAME_FAILED")
    ELSE announceHand(startNewHand(S1, S1.order, BigBlind, SmallBlind, seed),
                      "GAME_STARTED")

startGameBy(S, socket, seed, playerId) ==
  LET IsSeated(p) == S.ps[p].seatIndex # Null
  IN IF playerId = Null THEN sendError(S, socket, "NOT_IN_ROOM")
     ELSE IF playerId # S.hostId THEN sendError(S, socket, "NOT_HOST")
     ELSE IF S.isPlaying THEN sendError(S, socket, "GAME_ALREADY_STARTED")
     ELSE IF Len(Filter(S.order, IsSeated)) < 2
     THEN sendError(S, socket, "NOT_ENOUGH_PLAYERS")
     ELSE gamePlaying([S EXCEPT !.isPlaying = TRUE], socket, seed)

onStartGame(S, socket, seed) ==
  startGameBy(S, socket, seed, getPlayerBySocketId(S, socket))

\* the catch block of the PLAYER_ACTION handler
actionHandled(handled, socket) ==
  CASE Known(handled) ->
    IF handled.threw THEN sendError(handled.S, socket, "ACTION_FAILED")
    ELSE handled.S

actionProcessed(result, socket) ==
  CASE Known(result) ->
    IF ~result.success THEN sendError(result.st, socket, result.error)
    ELSE actionHandled(handleActionResult(result.st, result), socket)

playerActionBy(S, socket, payload, playerId) ==
  IF playerId = Null THEN sendError(S, socket, "NOT_IN_ROOM")
  ELSE IF S.gs = NullGS THEN sendError(S, socket, "GAME_NOT_STARTED")
  ELSE actionProcessed(processAction(S, S.order, playerId, payload), socket)

onPlayerAction(S, socket, payload) ==
  playerActionBy(S, socket, payload, getPlayerBySocketId(S, socket))

\* the callback of the action timer; the timer that fired is no longer
\* pending, and an exception that leaves the callback ends the process
timeoutHandled(handled) ==
  CASE Known(handled) ->
    IF handled.threw THEN [handled.S EXCEPT !.up = FALSE] ELSE handled.S

timeoutProcessed(result) ==
  CASE Known(result) ->
    IF ~result.success THEN result.st
    ELSE timeoutHandled(handleActionResult(result.st, result))

timerFired(S0, playerId) ==
  CASE Known(S0) -> timeoutProcessed(handleTimeout(S0, S0.order, playerId))

onTimeout(S, playerId) == timerFired([S EXCEPT !.timer = Null], playerId)

\* the callback of the 3 s timer endCurrentHand sets
onNextHand(S, seed) ==
  LET S0 == [S EXCEPT !.nextHand = FALSE]
  IN IF S0.isPlaying THEN startNewHandInRoom(S0, seed) ELSE S0

onReconnect(S, socket, playerId) ==
  LET known == playerId \in DOMAIN S.ps
      S1 == IF known THEN rejoinRoom(S, socket, playerId) ELSE joinRoom(S, socket)
      S2 == [S1 EXCEPT !.ioRoom = @ \cup {socket}]
      myCards == IF known THEN S2.ps[playerId].holeCards ELSE <<>>
      cards == IF myCards = <<>> THEN NoCards ELSE (playerId :> myCards)
  IN IF roomDestroyed(S) THEN sendError(S, socket, "RECONNECT_FAILED")
     ELSE emit(S2, Event("RECONNECTED", {socket}, versionOf(S2),
                         getPublicRoomInfo(S2), cards, ""))

\* the JOIN_ROOM handler; playerId is the payload's playerId or one no
\* room has issued.  socket.to(room) leaves the sender out.
onJoinRoom(S, socket, playerId) ==
  LET known == playerId \in DOMAIN S.ps
      S1 == IF known THEN rejoinRoom(S, socket, playerId) ELSE joinRoom(S, socket)
      S2 == [S1 EXCEPT !.ioRoom = @ \cup {socket}]
      joined == emit(S2, Event("ROOM_JOINED", {socket}, versionOf(S2),
                               getPublicRoomInfo(S2), NoCards, ""))
  IN IF roomDestroyed(S) THEN sendError(S, socket, "ROOM_NOT_FOUND")
     ELSE IF known THEN joined
     ELSE emit(joined, Event("PLAYER_JOINED", S2.ioRoom \ {socket},
                             versionOf(S2), getPublicRoomInfo(S2), NoCards, ""))

onKickPlayer(S, socket, targetPlayerId) ==
  LET playerId == getPlayerBySocketId(S, socket)
      error == kickPlayerError(S, playerId, targetPlayerId)
  IN IF playerId = Null THEN sendError(S, socket, "NOT_IN_ROOM")
     ELSE IF error # "NONE" THEN sendError(S, socket, error)
     ELSE broadcastRoomState(kickPlayer(S, targetPlayerId), "PLAYER_LEFT")

\* handlePlayerLeave: the LEAVE_ROOM handler
onLeaveRoom(S, socket) ==
  LET playerId == getPlayerBySocketId(S, socket)
      left == [leaveRoom(S, playerId) EXCEPT !.ioRoom = @ \ {socket}]
  IN IF playerId = Null THEN S
     ELSE IF leaveRoomRefused(S, playerId) THEN S
     ELSE IF roomDestroyed(left) THEN [left EXCEPT !.timer = Null]
     ELSE IF S.ps[playerId].isHost
     THEN broadcastRoomState(broadcastRoomState(left, "PLAYER_LEFT"),
                             "ROOM_UPDATED")
     ELSE broadcastRoomState(left, "PLAYER_LEFT")

onDisconnect(S, socket) ==
  LET playerId == getPlayerBySocketId(S, socket)
      S1 == [S EXCEPT !.gone = @ \cup {socket}, !.ioRoom = @ \ {socket}]
  IN IF playerId = Null THEN S1
     ELSE [S1 EXCEPT !.ps[playerId].socketId = Null]

\* ------------------------------------------------------------------------
\* The state machine
\* ------------------------------------------------------------------------
VARIABLES
  ps, order, hostId, isPlaying, seatMap, gs, timer, nextHand, proc, queue,
  uuids, clock, sockMap, roomOf, gone, ioRoom, up, sent,
  \* history: the handler that ran last and the socket (for a timer: the
  \* player) it ran for; the players dealt into the current hand and the
  \* chips they held before it; the number of client request ids accepted so
  \* far plus one; the last room snapshot sent before the events in sent
  last, bank, nextReq, prevSnap,
  \* a function of the engine under study on its own: its name, its
  \* arguments and, once it has returned, its result
  call

vars ==
  <<ps, order, hostId, isPlaying, seatMap, gs, timer, nextHand, proc, queue,
    uuids, clock, sockMap, roomOf, gone, ioRoom, up, sent, last, bank,
    nextReq, prevSnap, call>>

\* input bounds
NumSockets == 4
MaxPot == 3
DeepChips == 6
MaxRaise == 5
MaxActions == 12
Sockets == 1..NumSockets
Seeds == 0..(NumSeeds - 1)
ActionTypes == {"FOLD", "CHECK", "CALL", "RAISE", "ALL_IN", "STRADDLE"}

\* client request ids are opaque: the k-th id a client makes up is named k.
\* A client sends a new id or repeats one of the ids sent most recently.
RequestIds == {q \in 1..nextReq : q >= nextReq - (MAX_REQUESTS + 1)}

PayloadsWith(rounds, ids) ==
  {[action |-> a, amount |-> 0, roundIndex |-> r, requestId |-> q] :
     a \in ActionTypes \ {"RAISE"}, r \in rounds, q \in ids}
  \cup
  {[action |-> "RAISE", amount |-> m, roundIndex |-> r, requestId |-> q] :
     m \in 0..MaxRaise, r \in rounds, q \in ids}

\* every payload a client may send
Payloads == PayloadsWith(1..MaxHands, RequestIds)

\* the payloads of a client that is in step with the game
TimelyPayloads ==
  IF gs = NullGS THEN {} ELSE PayloadsWith({gs.roundIndex}, {nextReq})

\* a FOLD sent with any round index and any request id
UntimelyFolds ==
  {[action |-> "FOLD", amount |-> 0, roundIndex |-> r, requestId |-> q] :
     r \in 1..MaxHands, q \in RequestIds}

\* the sockets of the player whose turn it is
ActorSockets ==
  {k \in Sockets \ gone :
     /\ sockMap[k] \in DOMAIN ps
     /\ gs # NullGS
     /\ ps[sockMap[k]].seatIndex # Null
     /\ ps[sockMap[k]].seatIndex = gs.currentPlayerIndex}

\* the state before a handler runs, with an empty outbox
Cur ==
  [ps |-> ps, order |-> order, hostId |-> hostId, isPlaying |-> isPlaying,
   seatMap |-> seatMap, gs |-> gs, timer |-> timer, nextHand |-> nextHand,
   proc |-> proc, queue |-> queue, uuids |-> uuids, clock |-> clock,
   sockMap |-> sockMap, roomOf |-> roomOf, gone |-> gone, ioRoom |-> ioRoom,
   up |-> up, sent |-> <<>>]

\* the last room snapshot among events, or before when there is none
lastSnapshot(events, before) ==
  LET HasRoom(e) == e.room # NoRoom
      withRoom == Filter(events, HasRoom)
  IN IF withRoom = <<>> THEN before
     ELSE [stateVersion |-> withRoom[Len(withRoom)].stateVersion,
           room |-> withRoom[Len(withRoom)].room]

handBegins(R) ==
  IF R.gs = NullGS THEN FALSE
  ELSE IF gs = NullGS THEN TRUE ELSE R.gs.handId # gs.handId

ChipsOf(q, players) ==
  LET Chips(p) == q[p].chips IN SumSeq(MapSeq(players, Chips))

\* the state after handler op has run for who: R is what it returns
Becomes(R, op, who) ==
  /\ ps' = R.ps /\ order' = R.order /\ hostId' = R.hostId
  /\ isPlaying' = R.isPlaying /\ seatMap' = R.seatMap /\ gs' = R.gs
  /\ timer' = R.timer /\ nextHand' = R.nextHand /\ proc' = R.proc
  /\ queue' = R.queue /\ uuids' = R.uuids /\ clock' = R.clock
  /\ sockMap' = R.sockMap /\ roomOf' = R.roomOf /\ gone' = R.gone
  /\ ioRoom' = R.ioRoom /\ up' = R.up /\ sent' = R.sent
  /\ last' = [op |-> op, who |-> who]
  /\ prevSnap' = lastSnapshot(sent, prevSnap)
  /\ bank' = IF handBegins(R)
             THEN [players |-> Range(HandEntrants(ps, order)),
                   total |-> ChipsOf(ps, HandEntrants(ps, order))]
             ELSE bank
  /\ nextReq' = IF nextReq \in R.proc THEN nextReq + 1 ELSE nextReq
  /\ call' = call

\* a hand beyond the bound is not started, an action beyond the bound on the
\* actions of a hand is not taken
withinHands(R) == IF R.gs = NullGS THEN TRUE ELSE R.gs.handNumber <= MaxHands

withinActions(R) ==
  IF R.gs = NullGS THEN TRUE ELSE Len(R.gs.actionHistory) <= MaxActions

StartGameFrom(sockets, seeds) ==
  \E socket \in sockets, seed \in seeds :
    /\ up
    /\ \E R \in {onStartGame(Cur, socket, seed)} :
         withinHands(R) /\ Becomes(R, "START_GAME", socket)

PlayerActionFrom(sockets, payloads) ==
  \E socket \in sockets, payload \in payloads :
    /\ up
    /\ \E R \in {onPlayerAction(Cur, socket, payload)} :
         withinActions(R) /\ Becomes(R, "PLAYER_ACTION", socket)

ActionTimeout ==
  /\ up /\ timer # Null
  /\ \E R \in {onTimeout(Cur, timer)} :
       withinActions(R) /\ Becomes(R, "TIMEOUT", timer)

NextHandWith(seeds) ==
  \E seed \in seeds :
    /\ up /\ nextHand
    /\ \E R \in {onNextHand(Cur, seed)} :
         withinHands(R) /\ Becomes(R, "NEXT_HAND", Null)

SitDownFrom(sockets, seats) ==
  \E socket \in sockets, seatIndex \in seats :
    /\ up
    /\ Becomes(onSitDown(Cur, socket, seatIndex), "SIT_DOWN", socket)

StandUpFrom(sockets) ==
  \E socket \in sockets :
    up /\ Becomes(onStandUp(Cur, socket), "STAND_UP", socket)

ReconnectFrom(sockets, players) ==
  \E socket \in sockets, playerId \in players :
    /\ up /\ sockMap[socket] = Null
    /\ Becomes(onReconnect(Cur, socket, playerId), "RECONNECT", socket)

KickPlayerFrom(sockets, targets) ==
  \E socket \in sockets, targetPlayerId \in targets :
    /\ up
    /\ Becomes(onKickPlayer(Cur, socket, targetPlayerId), "KICK_PLAYER", socket)

LeaveRoomFrom(sockets) ==
  \E socket \in sockets :
    up /\ Becomes(onLeaveRoom(Cur, socket), "LEAVE_ROOM", socket)

DisconnectFrom(sockets) ==
  \E socket \in sockets :
    /\ up /\ sockMap[socket] # Null
    /\ Becomes(onDisconnect(Cur, socket), "DISCONNECT", socket)

\* the room after CREATE_ROOM from socket 1, JOIN_ROOM from sockets 2 and 3,
\* and SIT_DOWN of players 1 and 2 at seats 0 and 1
InitRoom ==
  LET joined == [p \in 1..3 |-> NewPlayer(p, p = 1, p)]
      S0 == [ps |-> joined, order |-> <<1, 2, 3>>, hostId |-> 1,
             isPlaying |-> FALSE, seatMap |-> [i \in 1..MaxSeats |-> Null],
             gs |-> NullGS, timer |-> Null, nextHand |-> FALSE, proc |-> {},
             queue |-> <<>>, uuids |-> 3, clock |-> 0,
             sockMap |-> [k \in Sockets |-> IF k <= 3 THEN k ELSE Null],
             roomOf |-> {1, 2, 3}, gone |-> {}, ioRoom |-> {1, 2, 3},
             up |-> TRUE, sent |-> <<>>]
  IN sitDown(sitDown(S0, 1, 0), 2, 1)

\* the server is in state R
StartsAs(R) ==
  /\ ps = R.ps /\ order = R.order /\ hostId = R.hostId
  /\ isPlaying = R.isPlaying /\ seatMap = R.seatMap /\ gs = R.gs
  /\ timer = R.timer /\ nextHand = R.nextHand /\ proc = R.proc
  /\ queue = R.queue /\ uuids = R.uuids /\ clock = R.clock
  /\ sockMap = R.sockMap /\ roomOf = R.roomOf /\ gone = R.gone
  /\ ioRoom = R.ioRoom /\ up = R.up /\ sent = R.sent

RoomInit ==
  /\ StartsAs(InitRoom)
  /\ last = [op |-> "SIT_DOWN", who |-> 2]
  /\ bank = [players |-> {}, total |-> 0]
  /\ nextReq = 1
  /\ prevSnap = [stateVersion |-> 0, room |-> getPublicRoomInfo(InitRoom)]

NoCall == [fn |-> "none"]

Init == RoomInit /\ call = NoCall

\* The first hand of a game, and the game started again when it has ended:
\* the host starts it, the player whose turn it is acts in step with the
\* game, player 3 takes or leaves the free seat.
StartGame == StartGameFrom({1}, Seeds)
PlayerAction == PlayerActionFrom(ActorSockets, TimelyPayloads)
SitDown == SitDownFrom({3}, {MaxSeats - 1})
StandUp == StandUpFrom({3})

Next ==
  \/ StartGame
  \/ PlayerAction
  \/ SitDown
  \/ StandUp

Spec == Init /\ [][Next]_vars

\* The same game with every request a client can send: any socket, any
\* action, stale round indexes, repeated request ids.
AnyStartGame == StartGameFrom(Sockets \ gone, Seeds)
AnyPlayerAction ==
  PlayerActionFrom(Sockets \ gone, TimelyPayloads \cup UntimelyFolds)

SessionNext ==
  \/ AnyStartGame
  \/ AnyPlayerAction

SessionSpec == Init /\ [][SessionNext]_vars

\* The same game with the action timer, sockets that drop and a new socket
\* that takes over a player.
Reconnect == ReconnectFrom({NumSockets}, {1, 2})
Disconnect == DisconnectFrom({2, NumSockets} \ gone)

TimerNext ==
  \/ StartGame
  \/ PlayerAction
  \/ ActionTimeout
  \/ Reconnect
  \/ Disconnect

TimerSpec == Init /\ [][TimerNext]_vars

\* Two hands of a game. The first is dealt with seed 0, the second with
\* the last seed. The first is played without a raise, each player acting in time, while player 3 may take the free
\* seat; the players enter the second hand with different stacks, and in
\* it every action and the action timer are possible.
firstHand == IF gs = NullGS THEN FALSE ELSE gs.handNumber = 1
laterHand == IF gs = NullGS THEN FALSE ELSE gs.handNumber > 1

PassivePayloads ==
  {payload \in TimelyPayloads : payload.action \in {"FOLD", "CHECK", "CALL"}}

OpenGame == StartGameFrom({1}, {0})
NextHand == NextHandWith({NumSeeds - 1})
FirstHandAction == firstHand /\ PlayerActionFrom(ActorSockets, PassivePayloads)
Latecomer == firstHand /\ SitDown
LaterAction == laterHand /\ PlayerAction
LaterTimeout == laterHand /\ ActionTimeout

SecondNext ==
  \/ OpenGame
  \/ FirstHandAction
  \/ Latecomer
  \/ NextHand
  \/ LaterAction
  \/ LaterTimeout

SecondSpec == Init /\ [][SecondNext]_vars

\* Two hands played without a raise; in the second, any socket may also
\* send a FOLD with any round index and any recent request id.
LaterReplay ==
  laterHand /\ PlayerActionFrom(Sockets \ gone, PassivePayloads \cup UntimelyFolds)

ReplayNext ==
  \/ OpenGame
  \/ FirstHandAction
  \/ NextHand
  \/ LaterReplay

ReplaySpec == Init /\ [][ReplayNext]_vars

\* Two hands with all three players seated.  The first is played without
\* a raise and leaves the players with different stacks; in the second
\* every action is possible, so that a player can raise with a stack that
\* is smaller than the bet of another.
FullRoom == sitDown(InitRoom, 3, 2)

ShortInit ==
  /\ StartsAs(FullRoom)
  /\ last = [op |-> "SIT_DOWN", who |-> 3]
  /\ bank = [players |-> {}, total |-> 0]
  /\ nextReq = 1
  /\ prevSnap = [stateVersion |-> 0, room |-> getPublicRoomInfo(FullRoom)]
  /\ call = NoCall

ShortNext ==
  \/ OpenGame
  \/ FirstHandAction
  \/ NextHand
  \/ LaterAction

ShortSpec == ShortInit /\ [][ShortNext]_vars

\* One hand in a room whose players sat down with DeepChips each, all three
\* seated: stacks deep enough for a raise that is not an all-in and for a
\* bet on the river.
DeepRoom ==
  LET S == sitDown(InitRoom, 3, 2)
  IN [S EXCEPT !.ps = [p \in DOMAIN S.ps |-> [S.ps[p] EXCEPT !.chips = DeepChips]]]

DeepInit ==
  /\ StartsAs(DeepRoom)
  /\ last = [op |-> "SIT_DOWN", who |-> 3]
  /\ bank = [players |-> {}, total |-> 0]
  /\ nextReq = 1
  /\ prevSnap = [stateVersion |-> 0, room |-> getPublicRoomInfo(DeepRoom)]
  /\ call = NoCall

DeepNext ==
  \/ OpenGame
  \/ PlayerAction

DeepSpec == DeepInit /\ [][DeepNext]_vars

\* PokerEngine.awardPots on its own.  Three players at any seats; an
\* evaluated hand with one of HandScores for some of them; one or two pots
\* of up to MaxPot chips, each open to some players of whom one at least
\* has an evaluated hand, as at a showdown.
HandScores == {calculateScore(rank, <<>>) : rank \in {ONE_PAIR, TWO_PAIR}}

Seatings ==
  {seats \in [DOMAIN InitRoom.ps -> 0..(MaxSeats - 1)] :
     \A p, q \in DOMAIN seats : p # q => seats[p] # seats[q]}

SeatedAt(seats) ==
  [p \in DOMAIN InitRoom.ps |-> [InitRoom.ps[p] EXCEPT !.seatIndex = seats[p]]]

HandMaps ==
  UNION {[shown -> {[score |-> score] : score \in HandScores}] :
           shown \in SUBSET (DOMAIN InitRoom.ps) \ {{}}}

PotsFor(hands) ==
  LET In(E) == LET Listed(p) == p \in E IN Filter(InitRoom.order, Listed)
      one == {[amount |-> amount, eligiblePlayerIds |-> In(E)] :
                amount \in 0..MaxPot,
                E \in {F \in SUBSET (DOMAIN InitRoom.ps) :
                         F \cap DOMAIN hands # {}}}
  IN {<<pot>> : pot \in one} \cup (one \X one)

AwardCall(seats, hands, pots) ==
  [fn |-> "awardPots", seats |-> seats, pots |-> pots, hands |-> hands,
   returned |-> FALSE, winnings |-> <<>>]

AwardInit ==
  /\ RoomInit
  /\ \E seats \in Seatings, hands \in HandMaps :
       \E pots \in PotsFor(hands) : call = AwardCall(seats, hands, pots)

AwardPots ==
  /\ call.fn = "awardPots" /\ ~call.returned
  /\ call' = [call EXCEPT
                !.returned = TRUE,
                !.winnings = awardPots(SeatedAt(call.seats), call.pots, call.hands,
                                       InitRoom.order)]
  /\ UNCHANGED <<ps, order, hostId, isPlaying, seatMap, gs, timer, nextHand,
                 proc, queue, uuids, clock, sockMap, roomOf, gone, ioRoom, up,
                 sent, last, bank, nextReq, prevSnap>>

AwardNext == AwardPots

AwardSpec == AwardInit /\ [][AwardNext]_vars

\* Two hands at a table where players 1, 2 and 3 have taken any three
\* seats, so that the seat order need not be the order of joining.  A
\* player folds, checks, calls or goes all-in, so that a hand can bust a
\* player before the next one starts.
SeatedRoom(seats) ==
  LET empty == standUp(standUp(InitRoom, 1), 2)
  IN sitDown(sitDown(sitDown(empty, 1, seats[1]), 2, seats[2]), 3, seats[3])

TableInit ==
  /\ \E seats \in Seatings :
       /\ StartsAs(SeatedRoom(seats))
       /\ prevSnap = [stateVersion |-> 0,
                      room |-> getPublicRoomInfo(SeatedRoom(seats))]
  /\ last = [op |-> "SIT_DOWN", who |-> 3]
  /\ bank = [players |-> {}, total |-> 0]
  /\ nextReq = 1
  /\ call = NoCall

TablePayloads ==
  {payload \in TimelyPayloads :
     payload.action \in {"FOLD", "CHECK", "CALL", "ALL_IN"}}

TableAction == PlayerActionFrom(ActorSockets, TablePayloads)

TableNext ==
  \/ OpenGame
  \/ TableAction
  \/ NextHand

TableSpec == TableInit /\ [][TableNext]_vars

\* The same table where the 3 s timer that starts the next hand, once set,
\* fires.  NextHand is enabled exactly when NextHandDue holds, and a
\* NextHand step clears nextHand, so that WF_vars(NextHand) is the formula
\* []<>~NextHandDue, which is written here without ENABLED.
NextHandDue ==
  /\ up /\ nextHand
  /\ \/ ~isPlaying
     \/ ~canStartNewHand(ps, order)
     \/ gs.handNumber < MaxHands

NextHandFires == []<>~NextHandDue

TableLiveSpec == TableInit /\ [][TableNext]_vars /\ NextHandFires

\* The room with its members coming and going, before a game and while its
\* first hand is on: any connected socket asks for any seat (also one
\* before the first and one behind the last), stands up, leaves, asks to
\* kick a founding member or a player that does not exist, or asks to start
\* the game; socket 2 drops; the last socket joins as a new member or as
\* player 2.
\* the player ids no room has issued
NoPlayers == {0}

LobbySitDown == SitDownFrom(Sockets \ gone, (0 - 1)..MaxSeats)
LobbyStandUp == StandUpFrom(Sockets \ gone)
LobbyKick == KickPlayerFrom(Sockets \ gone, DOMAIN InitRoom.ps \cup NoPlayers)
LobbyLeave == LeaveRoomFrom(Sockets \ (gone \cup {NumSockets}))
LobbyDisconnect == DisconnectFrom({2} \ gone)
LobbyJoin == ReconnectFrom({NumSockets}, NoPlayers \cup {2})
LobbyStart == StartGameFrom(Sockets \ gone, {0})

LobbyNext ==
  \/ LobbySitDown
  \/ LobbyStandUp
  \/ LobbyKick
  \/ LobbyLeave
  \/ LobbyDisconnect
  \/ LobbyJoin
  \/ LobbyStart

LobbySpec == Init /\ [][LobbyNext]_vars

\* Two rooms on one server.  gameController is one object for all rooms,
\* so an action accepted in the other room reaches step 7 of
\* processAction with the same processedRequests and requestQueue, when
\* its request id has passed step 1; nothing else of this room is written.  The clients of the other room send the
\* request ids of this room's clients (ids are client-made strings) or ids
\* of their own, which are named by negative numbers.  The other room is
\* watched until this room's clients have made up MAX_REQUESTS + 1 ids.
ForeignIds == {0 - k : k \in 1..MAX_REQUESTS}

onOtherRoomAction(S, requestId) == addProcessedRequest(S, requestId)

OtherRoomAction ==
  \E requestId \in {nextReq} \cup ForeignIds :
    /\ up /\ nextReq <= MAX_REQUESTS + 1
    /\ requestId \notin proc
    /\ Becomes(onOtherRoomAction(Cur, requestId), "OTHER_ROOM_ACTION", 0)

RoomsAction == PlayerActionFrom(ActorSockets, PassivePayloads)

RoomsNext ==
  \/ OpenGame
  \/ RoomsAction
  \/ OtherRoomAction

RoomsSpec == Init /\ [][RoomsNext]_vars

\* PokerEngine.evaluateHand on its own: two hole cards and three or five
\* community cards, which are any five or seven cards among the spades 2
\* to 5 and 10 to ace, the hearts 5, 6 and ace, and the 5 of diamonds and
\* of clubs (named by their place in createDeck).
EvalCards == {1, 2, 3, 4, 9, 10, 11, 12, 13, 17, 18, 26, 30, 43}

\* the cards at the places I of a sequence, in the order of the sequence
PickSeq(cards, I) ==
  [k \in 1..Cardinality(I) |->
     cards[CHOOSE i \in I : Cardinality({j \in I : j < i}) = k - 1]]

EvalCall(dealt) ==
  [fn |-> "evaluateHand", holeCards |-> SubSeq(dealt, 1, 2),
   communityCards |-> SubSeq(dealt, 3, Len(dealt)), returned |-> FALSE,
   hand |-> <<>>]

EvalInit ==
  /\ RoomInit
  /\ \E I \in SUBSET EvalCards :
       /\ Cardinality(I) \in {5, 7}
       /\ call = EvalCall(PickSeq(createDeck, I))

EvaluateHand ==
  /\ call.fn = "evaluateHand" /\ ~call.returned
  /\ call' = [call EXCEPT
                !.returned = TRUE,
                !.hand = evaluateHand(call.holeCards, call.communityCards)]
  /\ UNCHANGED <<ps, order, hostId, isPlaying, seatMap, gs, timer, nextHand,
                 proc, queue, uuids, clock, sockMap, roomOf, gone, ioRoom, up,
                 sent, last, bank, nextReq, prevSnap>>

EvalNext == EvaluateHand

EvalSpec == EvalInit /\ [][EvalNext]_vars

\* ------------------------------------------------------------------------
\* Properties
\* ------------------------------------------------------------------------
BettingPhases == {"PRE_FLOP", "FLOP", "TURN", "RIVER"}

\* the players dealt into the current hand, in joining order
Dealt == LET In(p) == p \in bank.players IN Filter(order, In)

PotTotal ==
  LET Amount(pot) == pot.amount IN SumSeq(MapSeq(gs.pots, Amount))

\* C1: during a hand the chips of the players dealt into it plus the pots
\* equal the chips those players held before the hand, and once the hand is
\* settled their chips alone equal that total.
C1_ChipsConserved ==
  IF gs = NullGS THEN TRUE
  ELSE IF gs.phase \in BettingPhases
  THEN ChipsOf(ps, Dealt) + PotTotal = bank.total
  ELSE ChipsOf(ps, Dealt) = bank.total

Events == Range(sent)

NotFolded == {p \in bank.players : ~ps[p].isFolded}

\* C3: a hand is settled as the win of a single survivor (a HAND_RESULT
\* without showdown cards) only when at most one player dealt into it has
\* not folded; an all-in player counts as not folded.
C3_SurvivorWinsAlone ==
  \A e \in Events :
    e.type = "HAND_RESULT" /\ e.showdownCards = <<>> =>
      Cardinality(NotFolded) <= 1

\* C4: the result of a showdown shows the cards of every player dealt into
\* the hand that has not folded, all-in players included.
C4_ShowdownShowsAll ==
  \A e \in Events :
    e.type = "HAND_RESULT" /\ e.showdownCards # <<>> =>
      NotFolded \subseteq
        {e.showdownCards[i].playerId : i \in DOMAIN e.showdownCards}

\* the sockets of the players of the room
PlayerSockets == {k \in Sockets \ gone : getPlayerBySocketId(Cur, k) # Null}

ActionRuleErrors ==
  {"CANNOT_CHECK_MUST_CALL", "NOTHING_TO_CALL", "RAISE_TOO_SMALL",
   "NOT_ENOUGH_CHIPS", "INVALID_ACTION"}

\* the first check of the fixed order that fails: duplicate request id,
\* round index, turn ownership, ability to act; "NONE" when all four pass
FirstFailure(p, payload) ==
  IF payload.requestId \in proc THEN "DUPLICATE_REQUEST"
  ELSE IF payload.roundIndex # gs.roundIndex THEN "STALE_REQUEST"
  ELSE IF ps[p].seatIndex # gs.currentPlayerIndex THEN "NOT_YOUR_TURN"
  ELSE IF ~canAct(ps[p]) THEN "CANNOT_ACT"
  ELSE "NONE"

\* C6: processAction fails with the first check that fails in the order
\* duplicate request id, round index, turn ownership, ability to act, and
\* after these only with an error of the action's own rule; when it fails,
\* the players (chips, bets, flags), the game state (pots, currentBet,
\* minRaise, current actor, actionHistory, stateVersion) and the processed
\* request ids are as before.
C6_FirstFailureNoChange ==
  gs # NullGS =>
    \A p \in DOMAIN ps, payload \in Payloads :
      LET r == processAction(Cur, order, p, payload)
          first == FirstFailure(p, payload)
      IN /\ first # "NONE" => ~r.success /\ r.error = first
         /\ first = "NONE" /\ ~r.success => r.error \in ActionRuleErrors
         /\ ~r.success =>
              /\ r.st.ps = ps /\ r.st.gs = gs
              /\ r.st.proc = proc /\ r.st.queue = queue

\* a request that was stale and also sent out of turn has been rejected as
\* stale
C6_Witness ==
  /\ last.op = "PLAYER_ACTION"
  /\ \E e \in Events : e.code = "STALE_REQUEST"
  /\ gs # NullGS
  /\ sockMap[last.who] \in DOMAIN ps
  /\ ps[sockMap[last.who]].seatIndex # gs.currentPlayerIndex

\* the errors with which an action is rejected before it is applied
RejectionCodes ==
  {"NOT_IN_ROOM", "GAME_NOT_STARTED", "DUPLICATE_REQUEST", "STALE_REQUEST",
   "NOT_YOUR_TURN", "CANNOT_ACT"} \cup ActionRuleErrors

deadline == IF gs = NullGS THEN Null ELSE gs.turnTimeout

\* C7: a PLAYER_ACTION that is rejected leaves the action timer as it was,
\* armed for the same player, and leaves the deadline as it was.
C7_RejectionKeepsTimer ==
  [][(/\ last'.op = "PLAYER_ACTION"
      /\ \E e \in Range(sent') : e.code \in RejectionCodes)
     => timer' = timer /\ deadline' = deadline]_vars

\* the action the timer is said to apply for player p
ClaimedTimeoutAction(p) ==
  IF ps[p].currentBet = gs.currentBet THEN "CHECK" ELSE "FOLD"

\* the timer of the current actor is about to fire
TimerDue ==
  IF timer = Null \/ gs = NullGS THEN FALSE
  ELSE ps[timer].seatIndex = gs.currentPlayerIndex

\* C8: when the timer fires for the current actor, an action of that player
\* is appended to actionHistory, CHECK if the player's bet equals the table
\* bet and FOLD otherwise, stateVersion grows, PLAYER_ACTED is sent, the
\* server keeps running, and afterwards a timer is armed for the next actor
\* or the hand is over.
C8_TimeoutActs ==
  [][(TimerDue /\ last'.op = "TIMEOUT") =>
       /\ up'
       /\ gs'.actionHistory =
            Append(gs.actionHistory,
                   [playerId |-> timer, action |-> ClaimedTimeoutAction(timer),
                    amount |-> 0, phase |-> gs.phase])
       /\ gs'.stateVersion > gs.stateVersion
       /\ \E e \in Range(sent') : e.type = "PLAYER_ACTED"
       /\ timer' # Null \/ gs'.phase \in {"SHOWDOWN", "IDLE"}]_vars

handIdOf == IF gs = NullGS THEN Null ELSE gs.handId
roundIdOf == IF gs = NullGS THEN Null ELSE gs.roundId
historyOf == IF gs = NullGS THEN <<>> ELSE gs.actionHistory
Version == IF gs = NullGS THEN 0 ELSE gs.stateVersion

\* C9: no step lowers stateVersion; a step that starts a hand (also the
\* hand of a game started again), starts a betting round, records an action
\* or sends a hand result raises it; and the PLAYER_ACTED sent right after
\* a successful processAction carries the stateVersion before plus one.
C9_VersionGrows ==
  [][/\ Version' >= Version
     /\ handIdOf' # handIdOf => Version' > Version
     /\ roundIdOf' # roundIdOf => Version' > Version
     /\ historyOf' # historyOf => Version' > Version
     /\ (\E e \in Range(sent') : e.type = "HAND_RESULT") => Version' > Version
     /\ \A e \in Range(sent') :
          e.type = "PLAYER_ACTED" => e.stateVersion = Version + 1]_vars

\* a game that had ended has been started again
C9_Witness ==
  /\ last.op = "START_GAME"
  /\ gs # NullGS
  /\ gs.handNumber = 2
  /\ \E e \in Events : e.type = "GAME_STARTED"

\* the room snapshots sent last: the one before the handler that ran last,
\* then those of its events
Snapshots ==
  LET HasRoom(e) == e.room # NoRoom
      Snap(e) == [stateVersion |-> e.stateVersion, room |-> e.room]
  IN <<prevSnap>> \o MapSeq(Filter(sent, HasRoom), Snap)

\* C10: two room snapshots sent with the same stateVersion are equal.
C10_VersionTellsSnapshot ==
  \A i, j \in DOMAIN Snapshots :
    Snapshots[i].stateVersion = Snapshots[j].stateVersion =>
      Snapshots[i].room = Snapshots[j].room

roundIndexOf == IF gs = NullGS THEN 0 ELSE gs.roundIndex

\* a betting round of the hand under way has ended and the next has begun
RoundBegins ==
  /\ gs # NullGS /\ gs' # NullGS
  /\ gs'.handId = gs.handId
  /\ gs'.roundId # gs.roundId
  /\ gs'.phase \in BettingPhases

\* C11 as stated: once a betting round has begun, an action that carries
\* the round index that was current in the round before it, of the same
\* hand, is not applied, whoever sends it.
C11_EarlierRoundRejected ==
  [][RoundBegins =>
       \A p \in DOMAIN ps, payload \in PayloadsWith({gs.roundIndex}, {nextReq'}) :
         ~(processAction(Cur, order, p, payload).success)']_vars

\* C11, amended: roundIndex counts hands.  Every new hand has a greater
\* round index than the hand before, and an action of a player of the room
\* that carries the round index of an earlier hand, with a request id that
\* is not remembered, is rejected with STALE_REQUEST and changes nothing.
C11_EarlierHandRejected ==
  /\ [][handIdOf' # handIdOf => roundIndexOf' > roundIndexOf]_vars
  /\ [](gs # NullGS =>
          \A socket \in PlayerSockets, payload \in Payloads :
            (payload.requestId \notin proc
               /\ payload.roundIndex < gs.roundIndex) =>
              onPlayerAction(Cur, socket, payload) =
                sendError(Cur, socket, "STALE_REQUEST"))

\* in the second hand an action with the round index of the first has been
\* rejected as stale
C11_Witness ==
  /\ last.op = "PLAYER_ACTION"
  /\ roundIndexOf = 2
  /\ \E e \in Events : e.code = "STALE_REQUEST"

\* a step of a hand under way in which all but one of the players dealt
\* into it have come to be folded
LastFoldMade ==
  /\ last'.op \in {"PLAYER_ACTION", "TIMEOUT"}
  /\ gs # NullGS /\ gs' # NullGS
  /\ gs.phase \in BettingPhases
  /\ gs'.handId = gs.handId
  /\ Cardinality(NotFolded) > 1
  /\ Cardinality(NotFolded') = 1

\* C12: the step in which every player of the hand but one has come to be
\* folded ends the hand: the server keeps running and sends a HAND_RESULT
\* without showdown cards whose only winner is the player that has not
\* folded, all-in or not, with the sum of the pot amounts, and that
\* player's chips grow by this sum.
C12_SurvivorCollects ==
  [][LastFoldMade =>
       /\ up'
       /\ \E e \in Range(sent') :
            /\ e.type = "HAND_RESULT"
            /\ e.showdownCards = <<>>
            /\ Len(e.winners) = 1
            /\ e.winners[1].playerId \in NotFolded'
            /\ e.winners[1].amount = PotTotal
            /\ ps'[e.winners[1].playerId].chips =
                 ps[e.winners[1].playerId].chips + PotTotal]_vars

\* the side pots as C13 describes them, for the players dealt into the hand:
\* one pot per distinct positive totalBetThisHand, in ascending order
TieredPots(q, players) ==
  LET Total(p) == q[p].totalBetThisHand
      tiers == {Total(p) : p \in players} \ {0}
      Below(t) == {u \in tiers \cup {0} : u < t}
      Previous(t) == CHOOSE u \in Below(t) : \A v \in Below(t) : v <= u
      AtLeast(t) == {p \in players : Total(p) >= t}
      Pot(t) == [amount |-> (t - Previous(t)) * Cardinality(AtLeast(t)),
                 eligible |-> {p \in AtLeast(t) : ~q[p].isFolded}]
      RECURSIVE Ascending(_)
      Ascending(T) ==
        IF T = {} THEN <<>>
        ELSE LET least == CHOOSE t \in T : \A u \in T : t <= u
             IN <<least>> \o Ascending(T \ {least})
  IN MapSeq(Ascending(tiers), Pot)

\* the pots of the game state, with the eligible players as a set
PotsHeld(g) ==
  LET Held(pot) == [amount |-> pot.amount,
                    eligible |-> Range(pot.eligiblePlayerIds)]
  IN MapSeq(g.pots, Held)

\* C13: the pots recomputed when a betting round ends are the tiers of the
\* players' totalBetThisHand: for each distinct positive total, in
\* ascending order, (total - previous total) times the number of players
\* with at least that total, open to those of them that have not folded;
\* so the pot amounts sum to the players' totalBetThisHand.
C13_PotsFollowTotals ==
  [][RoundBegins =>
       /\ PotsHeld(gs') = TieredPots(ps', bank'.players)
       /\ PotTotal' =
            LET Total(p) == ps'[p].totalBetThisHand
            IN SumSeq(MapSeq(Dealt', Total))]_vars

\* the players that win a pot: those it lists that have an evaluated hand
\* with the highest score among the listed players that have one
BestOf(pot) ==
  LET eligible == Range(pot.eligiblePlayerIds) \cap DOMAIN call.hands
  IN {p \in eligible :
        \A q \in eligible : ~ScoreGT(call.hands[q].score, call.hands[p].score)}

\* what C14 gives player p of a pot: an even share for a winner, and one
\* chip more for the winners with the smallest seat indices, as many of
\* them as chips remain
ShareOf(pot, p) ==
  LET best == BestOf(pot)
      Before(w) == Cardinality({v \in best : call.seats[v] < call.seats[w]})
  IN IF p \notin best THEN 0
     ELSE (pot.amount \div Cardinality(best))
            + (IF Before(p) < pot.amount % Cardinality(best) THEN 1 ELSE 0)

Folded == {p \in bank.players : ps[p].isFolded}

PotsList(pots, players) ==
  \E i \in DOMAIN pots : Range(pots[i].eligiblePlayerIds) \cap players # {}

\* C15: the pots recomputed when a round ends list no player that has
\* folded, nor would pots recomputed at any other moment of the hand; and
\* the step that settles the hand, by showdown or not, names no folded
\* player as a winner and leaves the chips of every folded player as they
\* were.
C15_FoldedWinNothing ==
  /\ [](gs # NullGS =>
          ~PotsList(calculateSidePots(ps, getSeatedPlayers(ps, order)), Folded))
  /\ [][RoundBegins => ~PotsList(gs'.pots, Folded')]_vars
  /\ [][\A e \in Range(sent') :
          e.type = "HAND_RESULT" =>
            /\ \A i \in DOMAIN e.winners : e.winners[i].playerId \notin Folded'
            /\ \A i \in DOMAIN e.pots :
                 e.showdownCards # <<>> =>
                   Range(e.pots[i].eligiblePlayerIds) \cap Folded' = {}
            /\ \A p \in Folded' : ps'[p].chips = ps[p].chips]_vars

\* a showdown has paid a pot in a hand in which a player had folded after
\* putting chips in
C15_Witness ==
  \E e \in Events :
    /\ e.type = "HAND_RESULT"
    /\ e.showdownCards # <<>>
    /\ e.winners # <<>>
    /\ \E p \in Folded : ps[p].totalBetThisHand > 0

\* the players other than p that a raise of p asks to act again: seated,
\* not folded, not all-in
MustAnswer(q, p) ==
  {o \in Range(getSeatedPlayers(q, order)) \ {p} :
     ~q[o].isFolded /\ ~q[o].isAllIn}

RaisePayloads == {payload \in TimelyPayloads : payload.action = "RAISE"}

\* C16: when processAction accepts a RAISE to amount, the table currentBet
\* is amount, minRaise is the greater of the old minRaise and amount minus
\* the old currentBet, the raiser has paid amount minus the raiser's own
\* currentBet and the pots hold that much more, every other player that is
\* seated, not folded and not all-in has hasActed cleared, and while there
\* is such a player the betting round is not complete and the hand is not
\* ended: the player gets to act again.
C16_RaiseReopens ==
  gs # NullGS =>
    \A p \in DOMAIN ps, payload \in RaisePayloads :
      LET r == processAction(Cur, order, p, payload)
          amount == payload.amount
          paid == amount - ps[p].currentBet
          Amount(pot) == pot.amount
      IN r.success =>
           /\ r.st.gs.currentBet = amount
           /\ r.st.gs.minRaise = Max2(gs.minRaise, amount - gs.currentBet)
           /\ r.st.ps[p].chips = ps[p].chips - paid
           /\ r.st.ps[p].currentBet = amount
           /\ SumSeq(MapSeq(r.st.gs.pots, Amount)) = PotTotal + paid
           /\ \A o \in MustAnswer(ps, p) : ~r.st.ps[o].hasActed
           /\ MustAnswer(ps, p) # {} =>
                /\ ~r.shouldAdvancePhase
                /\ ~r.shouldEndHand
                /\ ~isRoundComplete(r.st.ps, getSeatedPlayers(r.st.ps, order),
                                    r.st.gs.currentBet)

\* the big blind of the hand
BigBlindPlayer(g, q) ==
  CHOOSE p \in bank.players : q[p].seatIndex = g.bigBlindIndex

\* a pre-flop step in which the last player ahead of the big blind calls:
\* every action of the hand so far is a CALL, every player dealt in but the
\* big blind has made one, and the big blind still has chips
LastCallBeforeBigBlind ==
  /\ last'.op = "PLAYER_ACTION"
  /\ gs # NullGS /\ gs' # NullGS
  /\ gs.phase = "PRE_FLOP"
  /\ gs'.handId = gs.handId
  /\ Len(gs'.actionHistory) = Len(gs.actionHistory) + 1
  /\ \A i \in DOMAIN gs'.actionHistory : gs'.actionHistory[i].action = "CALL"
  /\ {gs'.actionHistory[i].playerId : i \in DOMAIN gs'.actionHistory}
       = bank'.players \ {BigBlindPlayer(gs, ps)}
  /\ ~ps[BigBlindPlayer(gs, ps)].isAllIn

\* C17: pre-flop, when every player ahead of the big blind has called and
\* nobody has raised, the round is not over: the phase is still PRE_FLOP
\* and it is the big blind's turn.
C17_BigBlindHasOption ==
  [][LastCallBeforeBigBlind =>
       /\ gs'.phase = "PRE_FLOP"
       /\ gs'.currentPlayerIndex = gs.bigBlindIndex
       /\ ps'[BigBlindPlayer(gs, ps)].isCurrentTurn]_vars

\* the players that have acted in the betting round under way and have not
\* been asked to act again
ActedInRound ==
  {o \in bank.players :
     /\ ps[o].hasActed /\ ~ps[o].isFolded
     /\ \E i \in DOMAIN gs.actionHistory :
          /\ gs.actionHistory[i].playerId = o
          /\ gs.actionHistory[i].phase = gs.phase}

AllInPayloads == {payload \in TimelyPayloads : payload.action = "ALL_IN"}

\* C18: when processAction accepts an ALL_IN whose total bet exceeds the
\* table currentBet by less than minRaise, every other player that had
\* acted in the round still has hasActed set.
C18_ShortAllInKeepsClosed ==
  (gs # NullGS /\ gs.phase \in BettingPhases) =>
    \A p \in DOMAIN ps, payload \in AllInPayloads :
      LET r == processAction(Cur, order, p, payload)
          totalBet == ps[p].currentBet + ps[p].chips
      IN (/\ r.success
          /\ totalBet > gs.currentBet
          /\ totalBet - gs.currentBet < gs.minRaise) =>
           \A o \in ActedInRound \ {p} : r.st.ps[o].hasActed

PostFlopPhases == {"FLOP", "TURN", "RIVER"}

\* C19: every step that begins a FLOP, TURN or RIVER betting round leaves
\* the table currentBet at 0 and minRaise at the big blind, every player in
\* the hand with currentBet 0 and hasActed unset, and a roundId different
\* from the one of the round before.
C19_PostFlopRoundIsFresh ==
  [][(RoundBegins /\ gs'.phase \in PostFlopPhases) =>
       /\ gs'.currentBet = 0
       /\ gs'.minRaise = BigBlind
       /\ gs'.roundId # gs.roundId
       /\ \A p \in NotFolded' : ps'[p].currentBet = 0 /\ ~ps'[p].hasActed]_vars

\* the place of a phase in a hand; IDLE is the phase of a game that is over
PhaseRank(phase) ==
  CASE phase = "PRE_FLOP" -> 1
    [] phase = "FLOP"     -> 2
    [] phase = "TURN"     -> 3
    [] phase = "RIVER"    -> 4
    [] phase = "SHOWDOWN" -> 5
    [] OTHER              -> 6

BoardSize(phase) ==
  CASE phase = "PRE_FLOP" -> 0
    [] phase = "FLOP"     -> 3
    [] phase = "TURN"     -> 4
    [] OTHER              -> 5

ShowdownEvaluated ==
  \E e \in Events : e.type = "HAND_RESULT" /\ e.showdownCards # <<>>

\* C20: while the hand id stays the same the phase never moves to an
\* earlier one of PRE_FLOP, FLOP, TURN, RIVER, SHOWDOWN; the board holds
\* 0, 3, 4 and 5 cards in PRE_FLOP, FLOP, TURN and RIVER; and a hand result
\* that shows hands is sent with five cards on the board.
C20_PhasesAdvance ==
  /\ [][(gs # NullGS /\ gs' # NullGS /\ gs'.handId = gs.handId) =>
         PhaseRank(gs'.phase) >= PhaseRank(gs.phase)]_vars
  /\ [](gs # NullGS =>
         /\ gs.phase \in BettingPhases =>
              Len(gs.communityCards) = BoardSize(gs.phase)
         /\ ShowdownEvaluated => Len(gs.communityCards) = 5)

\* a hand played through the river has been shown down
C20_Witness ==
  /\ ShowdownEvaluated
  /\ gs.phase = "SHOWDOWN"
  /\ Len(gs.communityCards) = 5
  /\ \A phase \in BettingPhases :
       \E i \in DOMAIN gs.actionHistory : gs.actionHistory[i].phase = phase

\* the player of S that sits first behind seat, going round the table
NextInSeatOrder(q, S, seat) ==
  LET after == {p \in S : q[p].seatIndex > seat}
      from == IF after # {} THEN after ELSE S
  IN IF S = {} THEN Null
     ELSE CHOOSE p \in from : \A o \in from : q[p].seatIndex <= q[o].seatIndex

SeatOrNull(q, p) == IF p = Null THEN Null ELSE q[p].seatIndex

\* the players of S that can still make a decision
AbleToAct(q, S) == {p \in S : ~q[p].isFolded /\ q[p].chips > 0}

HandBeginsStep == gs' # NullGS /\ handIdOf' # handIdOf

\* q is the players after the blinds: p has paid blind, or all it had
Posted(q, p, blind) == q[p].totalBetThisHand = Min2(blind, ps[p].chips)

\* C21: every step that starts a hand leaves the small blind with the
\* dealer and the big blind with the other participant when two play, and
\* with the first and second participant behind the dealer when more do;
\* the first to act is the first participant with chips behind the big
\* blind (heads-up: the dealer).  Every step that begins a later round
\* gives the turn to the first participant able to act behind the dealer
\* (heads-up: the player that is not the dealer).
C21_BlindsFollowSeats ==
  /\ [][HandBeginsStep =>
         LET P == bank'.players
             d == gs'.dealerIndex
             headsUp == Cardinality(P) = 2
             first == NextInSeatOrder(ps', P, d)
             sb == IF headsUp THEN NextInSeatOrder(ps', P, ps'[first].seatIndex)
                   ELSE first
             bb == IF headsUp THEN first
                   ELSE NextInSeatOrder(ps', P, ps'[first].seatIndex)
         IN /\ headsUp => ps'[sb].seatIndex = d
            /\ gs'.smallBlindIndex = ps'[sb].seatIndex
            /\ gs'.bigBlindIndex = ps'[bb].seatIndex
            /\ Posted(ps', sb, SmallBlind)
            /\ Posted(ps', bb, BigBlind)
            /\ \A p \in P \ {sb, bb} : ps'[p].totalBetThisHand = 0
            /\ gs'.currentPlayerIndex =
                 SeatOrNull(ps', NextInSeatOrder(ps', AbleToAct(ps', P),
                                                 ps'[bb].seatIndex))
            /\ (headsUp /\ ps'[sb].chips > 0) =>
                 gs'.currentPlayerIndex = d]_vars
  /\ [][(RoundBegins /\ gs'.phase \in PostFlopPhases) =>
         /\ gs'.currentPlayerIndex =
              SeatOrNull(ps', NextInSeatOrder(ps', AbleToAct(ps', bank'.players),
                                              gs'.dealerIndex))
         /\ Cardinality(bank'.players) = 2 =>
              gs'.currentPlayerIndex # gs'.dealerIndex]_vars

\* the second hand is played heads-up and has come to the flop, at a table
\* where player 2 sits before player 1
C21_Witness ==
  /\ gs # NullGS
  /\ gs.handNumber = 2
  /\ gs.phase = "FLOP"
  /\ Cardinality(bank.players) = 2
  /\ gs.smallBlindIndex = gs.dealerIndex
  /\ gs.currentPlayerIndex = gs.bigBlindIndex
  /\ ps[2].seatIndex < ps[1].seatIndex

\* the seated players that can enter a hand
WithChips(q) ==
  {p \in DOMAIN q :
     q[p].seatIndex # Null /\ q[p].chips > 0 /\ q[p].status # "ELIMINATED"}

Dealers == {p \in DOMAIN ps : ps[p].seatIndex # Null /\ ps[p].isDealer}

\* C22: every step that starts a hand puts the button at the seat of a
\* participant, and when a hand was played before, at the first seat
\* behind the previous button whose player has chips and is not
\* ELIMINATED; while a hand is on, one seated player has isDealer.
C22_ButtonMovesOn ==
  /\ [][HandBeginsStep =>
         /\ \E p \in bank'.players : ps'[p].seatIndex = gs'.dealerIndex
         /\ gs # NullGS =>
              gs'.dealerIndex =
                ps[NextInSeatOrder(ps, WithChips(ps), gs.dealerIndex)].seatIndex]_vars
  /\ []((gs # NullGS /\ isPlaying) =>
          /\ Cardinality(Dealers) = 1
          /\ \A p \in Dealers : ps[p].seatIndex = gs.dealerIndex)

\* the second hand has its button at seat 2 because the player at seat 1
\* went bust in the first
C22_Witness ==
  /\ gs # NullGS
  /\ gs.handNumber = 2
  /\ gs.dealerIndex = 2
  /\ \E p \in DOMAIN ps : ps[p].seatIndex = 1 /\ ps[p].status = "ELIMINATED"

\* the cards held by the players and lying on the board, as one sequence
CardsOut ==
  LET RECURSIVE Held(_)
      Held(s) == IF s = <<>> THEN <<>>
                 ELSE ps[s[1]].holeCards \o Held(Tail(s))
  IN Held(order) \o gs.communityCards

\* C23: while a hand is being played, a seated player holds two hole cards
\* if it was dealt into the hand and none otherwise, a player without a
\* seat holds none, and no card is out twice.
C23_ParticipantsHoldTwo ==
  (gs # NullGS /\ gs.phase \in BettingPhases) =>
    /\ \A p \in DOMAIN ps :
         Len(ps[p].holeCards) =
           IF ps[p].seatIndex # Null /\ p \in bank.players THEN 2 ELSE 0
    /\ \A i, j \in DOMAIN CardsOut : i # j => CardsOut[i] # CardsOut[j]

Seated(q) == {p \in DOMAIN q : q[p].seatIndex # Null}

\* the step sends an event of this type
Sends(type) == \E i \in DOMAIN sent' : sent'[i].type = type

\* C24: a step that settles a hand leaves every seated player without
\* chips ELIMINATED; when at most one seated player has chips it ends the
\* game (isPlaying false, phase IDLE, GAME_ENDED sent, no next hand
\* pending), otherwise the game goes on with the next hand pending.  A
\* hand starts in a game that is not being played only by START_GAME; in
\* a game being played it has the next handNumber and a new handId, and
\* two players had chips.  A pending next hand is started.
C24_NextHandOrGameOver ==
  /\ [][Sends("HAND_RESULT") =>
         /\ \A p \in Seated(ps') :
              ps'[p].chips = 0 => ps'[p].status = "ELIMINATED"
         /\ IF Cardinality({p \in Seated(ps') : ps'[p].chips > 0}) <= 1
            THEN /\ ~isPlaying' /\ gs'.phase = "IDLE"
                 /\ Sends("GAME_ENDED") /\ ~nextHand'
            ELSE /\ isPlaying' /\ gs'.phase # "IDLE"
                 /\ ~Sends("GAME_ENDED") /\ nextHand']_vars
  /\ [][HandBeginsStep =>
         IF isPlaying
         THEN /\ last'.op = "NEXT_HAND"
              /\ gs # NullGS
              /\ gs'.handNumber = gs.handNumber + 1
              /\ Cardinality(WithChips(ps)) >= 2
         ELSE last'.op = "START_GAME"]_vars
  /\ \A h \in 1..(MaxHands - 1) :
       (gs # NullGS /\ nextHand /\ gs.handNumber = h)
         ~> (gs # NullGS /\ gs.handNumber = h + 1)

\* the second hand, started by the timer, has ended the game
C24_Witness ==
  /\ gs # NullGS
  /\ gs.handNumber = 2
  /\ gs.phase = "IDLE"
  /\ ~isPlaying /\ ~nextHand
  /\ \E e \in Events : e.type = "GAME_ENDED"
  /\ Cardinality({p \in Seated(ps) : ps[p].status = "ELIMINATED"}) = 2

\* R has the seats, the members and the players of the current state
SameMembers(R) ==
  /\ R.seatMap = seatMap /\ R.order = order /\ R.roomOf = roomOf
  /\ R.ps = ps /\ R.hostId = hostId

SeatedSockets ==
  {socket \in Sockets :
     LET p == getPlayerBySocketId(Cur, socket)
     IN IF p = Null THEN FALSE ELSE ps[p].seatIndex # Null}

OnlyErrorSent(R) ==
  /\ Len(R.sent) = 1
  /\ R.sent[1].type = "ERROR"

\* C25: while isPlaying, STAND_UP and LEAVE_ROOM from the socket of a
\* seated player and KICK_PLAYER from any socket change no seat, no member
\* and no player, the first and the last being answered with an error;
\* a disconnect of a seated player's socket changes nothing of them but
\* the player's socketId, which is cleared.
C25_MembersFixedInPlay ==
  isPlaying =>
    /\ \A socket \in SeatedSockets :
         /\ SameMembers(onStandUp(Cur, socket))
         /\ OnlyErrorSent(onStandUp(Cur, socket))
         /\ SameMembers(onLeaveRoom(Cur, socket))
         /\ onLeaveRoom(Cur, socket).sent = <<>>
         /\ LET D == onDisconnect(Cur, socket)
                p == getPlayerBySocketId(Cur, socket)
            IN /\ D.seatMap = seatMap /\ D.order = order
               /\ D.roomOf = roomOf /\ D.hostId = hostId
               /\ D.ps = [ps EXCEPT ![p].socketId = Null]
    /\ \A socket \in Sockets, target \in DOMAIN ps \cup NoPlayers :
         /\ SameMembers(onKickPlayer(Cur, socket, target))
         /\ OnlyErrorSent(onKickPlayer(Cur, socket, target))

\* the host has asked to kick a seated player during the game
C25_Witness ==
  /\ isPlaying
  /\ last.op = "KICK_PLAYER"
  /\ \E e \in Events : e.code = "GAME_IN_PROGRESS"
  /\ \E p \in DOMAIN ps : p # hostId /\ ps[p].seatIndex # Null

\* the handler answered with an error
Refused(R) == \E i \in DOMAIN R.sent : R.sent[i].type = "ERROR"

\* C26: a START_GAME that is answered with an error returns the state it
\* found, but for the error sent: isPlaying is still false unless a game
\* was being played, the game state and the players are the same, and
\* isPlaying <=> (gameState # null /\ phase # IDLE) still holds.
C26_FailedStartChangesNothing ==
  \A socket \in Sockets \ gone, seed \in Seeds :
    LET R == onStartGame(Cur, socket, seed)
    IN Refused(R) =>
         /\ [R EXCEPT !.sent = <<>>] = Cur
         /\ R.isPlaying <=> (R.gs # NullGS /\ R.gs.phase # "IDLE")

\* the seated players other than the host that have not marked ready
NotReady(S) ==
  {p \in DOMAIN S.ps :
     S.ps[p].seatIndex # Null /\ p # S.hostId /\ ~S.ps[p].isReady}

\* C27: a START_GAME sent while a seated player other than the host has
\* isReady unset is answered with an error and starts no hand; a step
\* that starts a hand leaves isReady unset on every player.
C27_StartWaitsForReady ==
  /\ [](\A socket \in Sockets \ gone, seed \in Seeds :
          LET R == onStartGame(Cur, socket, seed)
          IN NotReady(Cur) # {} => Refused(R) /\ R.gs = gs)
  /\ [][HandBeginsStep => \A p \in Seated(ps') : ~ps'[p].isReady]_vars

\* the members of the room that are its host
HostsOf(q) == {p \in DOMAIN q : q[p].isHost}

\* the members that the step removes from the room
Leavers == DOMAIN ps \ DOMAIN ps'

\* C28: while the room exists exactly one member has isHost and hostId is
\* that member's id.  A step in which the host leaves and members remain
\* makes exactly one remaining member the host, a step in which another
\* member leaves keeps the host, and the step in which the last member
\* leaves destroys the room: no member and no room entry is left of it.
C28_OneHost ==
  /\ [](~roomDestroyed(Cur) => hostId \in DOMAIN ps /\ HostsOf(ps) = {hostId})
  /\ [][\A p \in Leavers :
          IF DOMAIN ps' = {}
          THEN roomDestroyed(Cur') /\ roomOf' = {}
          ELSE /\ ~roomDestroyed(Cur')
               /\ hostId' \in DOMAIN ps' /\ HostsOf(ps') = {hostId'}
               /\ ps[p].isHost => hostId' # p
               /\ ~ps[p].isHost => hostId' = hostId]_vars

\* the host has left and the member that joined next is the host
C28_Witness ==
  /\ last.op = "LEAVE_ROOM" /\ ~roomDestroyed(Cur)
  /\ 1 \notin DOMAIN ps /\ hostId = order[1] /\ Len(order) >= 2

\* C29: once a hand is settled the host is not an ELIMINATED player while
\* a seated player that is not eliminated exists: the settlement hands the
\* room to such a player.
C29_HostOutlivesElimination ==
  (~roomDestroyed(Cur) /\ ps[hostId].status = "ELIMINATED") =>
    ~\E p \in Seated(ps) : ps[p].status # "ELIMINATED"

\* the seat indexes of the room
SeatIndexes == 0..(MaxSeats - 1)

\* the SIT_DOWN requests the room has to reject: the seat does not exist,
\* it is taken, or the player has a seat
BadSeat(socket, seatIndex) ==
  \/ seatIndex \notin SeatIndexes
  \/ seatMap[seatIndex + 1] # Null
  \/ /\ getPlayerBySocketId(Cur, socket) # Null
     /\ ps[getPlayerBySocketId(Cur, socket)].seatIndex # Null

\* C30: seatMap and the players' seatIndex agree: seat i holds player p
\* exactly when p.seatIndex = i, a taken seat holds a member of the room,
\* every seatIndex is null or a seat of the room, and no two players have
\* the same seat.  A SIT_DOWN for a seat that does not exist or is taken,
\* or from a player that has a seat, is answered with an error and
\* changes nothing.
C30_SeatsAgree ==
  /\ \A i \in SeatIndexes :
       /\ seatMap[i + 1] # Null => seatMap[i + 1] \in DOMAIN ps
       /\ \A p \in DOMAIN ps : seatMap[i + 1] = p <=> ps[p].seatIndex = i
  /\ \A p \in DOMAIN ps : ps[p].seatIndex \in SeatIndexes \cup {Null}
  /\ \A p, r \in Seated(ps) : ps[p].seatIndex = ps[r].seatIndex => p = r
  /\ \A socket \in Sockets \ gone, seatIndex \in (0 - 1)..MaxSeats :
       LET R == onSitDown(Cur, socket, seatIndex)
       IN BadSeat(socket, seatIndex) =>
            Refused(R) /\ [R EXCEPT !.sent = <<>>] = Cur

\* a player that has a seat asked for a free one and was refused
C30_Witness ==
  /\ last.op = "SIT_DOWN"
  /\ Len(sent) = 1 /\ sent[1].code = "ALREADY_SEATED"
  /\ Cardinality(Seated(ps)) >= 2

\* the KICK_PLAYER requests the room has to reject: the sender is not the
\* host, a game is being played, the host names itself or nobody in the room
BadKick(socket, target) ==
  LET playerId == getPlayerBySocketId(Cur, socket)
  IN \/ playerId = Null
     \/ playerId # hostId
     \/ isPlaying
     \/ target = playerId
     \/ target \notin DOMAIN ps

\* C31: a KICK_PLAYER of the host, sent while no game is played and naming
\* another member, removes that member from the room and from its seat
\* and sends a kick notification (PLAYER_KICKED) to the connection of
\* that member; any other KICK_PLAYER is answered with an error and
\* changes nothing.
C31_KickNotifiesAndRemoves ==
  \A socket \in Sockets \ gone, target \in DOMAIN ps \cup NoPlayers :
    LET R == onKickPlayer(Cur, socket, target)
    IN IF BadKick(socket, target)
       THEN Refused(R) /\ [R EXCEPT !.sent = <<>>] = Cur
       ELSE /\ target \notin DOMAIN R.ps
            /\ \A i \in SeatIndexes : R.seatMap[i + 1] # target
            /\ ps[target].socketId # Null =>
                 \E i \in DOMAIN R.sent :
                   /\ R.sent[i].type = "PLAYER_KICKED"
                   /\ R.sent[i].to = {ps[target].socketId}

\* C32: a RECONNECT naming a member of the room only binds the connection
\* to that member: but for the member's socketId, the socket maps and the
\* reply the state is the one before, so chips, bets, status, hole cards,
\* the current actor, the armed timer, its deadline and stateVersion are
\* unchanged.  The reply is one RECONNECTED to that connection with the
\* member's own hole cards and the current handId, roundId and
\* stateVersion.  A JOIN_ROOM naming a member changes the same and is
\* answered with one ROOM_JOINED.
C32_ReconnectOnlyRebinds ==
  \A socket \in Sockets \ gone, p \in DOMAIN ps :
    LET R == onReconnect(Cur, socket, p)
        reply == R.sent[1]
    IN /\ R = [Cur EXCEPT !.ps[p].socketId = socket,
                          !.sockMap[socket] = p,
                          !.ioRoom = @ \cup {socket},
                          !.sent = R.sent]
       /\ Len(R.sent) = 1
       /\ reply.type = "RECONNECTED" /\ reply.to = {socket}
       /\ reply.cards = IF ps[p].holeCards = <<>> THEN NoCards
                        ELSE (p :> ps[p].holeCards)
       /\ reply.stateVersion = Version
       /\ gs # NullGS =>
            /\ reply.room.gameState.handId = gs.handId
            /\ reply.room.gameState.roundId = gs.roundId
            /\ reply.room.gameState.stateVersion = gs.stateVersion
       /\ LET J == onJoinRoom(Cur, socket, p)
          IN /\ J = [Cur EXCEPT !.ps[p].socketId = socket,
                                !.sockMap[socket] = p,
                                !.ioRoom = @ \cup {socket},
                                !.sent = J.sent]
             /\ Len(J.sent) = 1
             /\ J.sent[1].type = "ROOM_JOINED" /\ J.sent[1].to = {socket}

\* a player of the hand came back while the action timer was armed
C32_Witness ==
  /\ last.op = "RECONNECT" /\ timer # Null
  /\ Len(sent) = 1 /\ sent[1].type = "RECONNECTED"
  /\ sent[1].cards # NoCards

\* the PLAYER_ACTION is answered DUPLICATE_REQUEST
DuplicateFor(S, socket, payload) ==
  LET R == onPlayerAction(S, socket, payload)
  IN \E i \in DOMAIN R.sent : R.sent[i].code = "DUPLICATE_REQUEST"

\* C33: duplicate detection is per room.  An action accepted in another
\* room changes the answer to no PLAYER_ACTION of this room: a request id
\* that was not a duplicate here is not one afterwards, and a request id
\* this room remembers is still remembered.
C33_DuplicatesPerRoom ==
  [][last'.op = "OTHER_ROOM_ACTION" =>
       \A socket \in ActorSockets, payload \in Payloads :
         DuplicateFor(Cur', socket, payload) <=> DuplicateFor(Cur, socket, payload)]_vars

\* the five-card hands among the cards evaluateHand was called with, each
\* with its ranks and what evaluateFiveCards makes of it
FiveCardHands ==
  LET cards == call.holeCards \o call.communityCards
      Hand(I) == [ranks |-> {cards[i].rank : i \in I},
                  eval |-> evaluateFiveCards(PickSeq(cards, I))]
  IN {Hand(I) : I \in {J \in SUBSET DOMAIN cards : Cardinality(J) = 5}}

\* the category, then the kickers one by one
KeyAt(e, i) ==
  IF i = 1 THEN e.rank
  ELSE IF i - 1 <= Len(e.kickers) THEN e.kickers[i - 1] ELSE 0

LexGT(a, b) ==
  \E i \in 1..6 :
    /\ KeyAt(a, i) > KeyAt(b, i)
    /\ \A j \in 1..(i - 1) : KeyAt(a, j) = KeyAt(b, j)

WheelRanks == {14, 2, 3, 4, 5}

\* C34: the hand evaluateHand returns is one of the five-card hands of
\* the cards and none of them scores higher; the scores order five-card
\* hands as category and kickers do, compared one after the other: the
\* higher category wins, equal categories are decided by the first
\* kicker that differs, and equal scores are equal categories with equal
\* kickers; A-2-3-4-5 is a straight led by the 5, below every other
\* straight of its category.
C34_BestHandByCategoryAndKickers ==
  (call.fn = "evaluateHand" /\ call.returned) =>
    /\ \E h \in FiveCardHands :
         /\ h.eval.score = call.hand.score
         /\ h.eval.rank = call.hand.rank
         /\ h.eval.kickers = call.hand.kickers
    /\ \A h \in FiveCardHands : ~ScoreGT(h.eval.score, call.hand.score)
    /\ \A a, b \in FiveCardHands :
         /\ ScoreGT(a.eval.score, b.eval.score) <=> LexGT(a.eval, b.eval)
         /\ a.eval.rank > b.eval.rank => ScoreGT(a.eval.score, b.eval.score)
         /\ a.eval.score = b.eval.score <=>
              (a.eval.rank = b.eval.rank /\ a.eval.kickers = b.eval.kickers)
    /\ \A a \in FiveCardHands :
         a.ranks = WheelRanks =>
           /\ a.eval.rank \in {STRAIGHT, STRAIGHT_FLUSH}
           /\ a.eval.kickers = <<5>>
           /\ \A b \in FiveCardHands :
                (b.eval.rank = a.eval.rank /\ b.ranks # WheelRanks) =>
                  ScoreGT(b.eval.score, a.eval.score)

\* the cards hold the wheel and 2-3-4-5-6, and the six-high straight is
\* the hand returned
C34_Witness ==
  /\ call.fn = "evaluateHand" /\ call.returned
  /\ \E a, b \in FiveCardHands :
       /\ a.ranks = WheelRanks /\ a.eval.rank = STRAIGHT
       /\ b.ranks = 2..6 /\ b.eval.rank = STRAIGHT
       /\ call.hand.score = b.eval.score

\* C35: a hand that has started reaches its settlement when armed timers
\* fire: in every state in which a betting round is open the server runs
\* and the action timer is armed for the current actor, so that either a
\* valid action or the timer moves the hand on.
C35_HandKeepsMoving ==
  (gs # NullGS /\ gs.phase \in BettingPhases) => up /\ TimerDue

\* C36: ending a hand never fails.  endHand finds a winner whenever an
\* accepted action or a timeout ends the hand, so NO_WINNER_FOUND is never
\* thrown: the action handler never answers ACTION_FAILED (its catch of
\* the exception) and the timer callback never stops the server.
C36_EndHandNeverFails ==
  /\ up
  /\ \A i \in DOMAIN sent : sent[i].code # "ACTION_FAILED"

\* a betting round is open
RoundOpen == IF gs = NullGS THEN FALSE ELSE gs.phase \in BettingPhases

\* the largest bet of the round among the players of the hand
LargestBet == LET Bet(p) == ps[p].currentBet IN
  CHOOSE b \in {Bet(p) : p \in bank.players} :
    \A p \in bank.players : Bet(p) <= b

\* C37: while a betting round is open the table's currentBet is the
\* largest currentBet of the round among the players of the hand, and no
\* step within the round lowers it.
C37_TableBetIsLargestBet ==
  /\ [](RoundOpen => gs.currentBet = LargestBet)
  /\ [][(RoundOpen /\ RoundOpen' /\ roundIdOf' = roundIdOf)
          => gs'.currentBet >= gs.currentBet]_vars

\* the players whose isCurrentTurn is set
TurnHolders == {p \in DOMAIN ps : ps[p].isCurrentTurn}

\* C38: at most one player of the room has isCurrentTurn, and that player
\* sits at gameState.currentPlayerIndex, was dealt into the current hand,
\* has not folded, is not all-in and has chips; a player who sat down
\* after the hand began is not among the players of the hand and so never
\* holds the turn in it.
C38_OneActorInTheHand ==
  /\ Cardinality(TurnHolders) <= 1
  /\ \A p \in TurnHolders :
       /\ gs # NullGS
       /\ ps[p].seatIndex # Null
       /\ ps[p].seatIndex = gs.currentPlayerIndex
       /\ p \in bank.players
       /\ ~ps[p].isFolded /\ ~ps[p].isAllIn /\ ps[p].chips > 0

\* a player has sat down during the hand, an action has been taken since
\* and the turn has moved on to a player of the hand
C38_Witness ==
  /\ last.op = "PLAYER_ACTION"
  /\ \E q \in Seated(ps) : q \notin bank.players
  /\ \E p \in TurnHolders : p # last.who

\* the open connections whose requests the server handles as playerId's
ConnectionsOf(playerId) ==
  {socket \in Sockets \ gone : getPlayerBySocketId(Cur, socket) = playerId}

\* C39: at most one open connection acts for a player, and the disconnect
\* of a connection that is not the one the player is bound to leaves the
\* player's binding as it is: once a player has reconnected on a new
\* connection, the old one neither acts for the player nor, when it
\* closes, marks the player as disconnected.
C39_OneConnectionPerPlayer ==
  /\ [](\A p \in DOMAIN ps : Cardinality(ConnectionsOf(p)) <= 1)
  /\ [][\A p \in DOMAIN ps \cap DOMAIN ps' :
          (last'.op = "DISCONNECT" /\ ps[p].socketId # last'.who)
            => ps'[p].socketId = ps[p].socketId]_vars

\* the player ids in the last room snapshot the server has sent
PublishedIds ==
  {prevSnap.room.players[i].id : i \in DOMAIN prevSnap.room.players}

\* C40: while a hand is being bet, a connection that joined as one member
\* and sends RECONNECT or JOIN_ROOM with the id of another member, which
\* it has read in a room snapshot, is sent no event that carries that
\* member's hole cards.
C40_NoCardsOfAnotherMember ==
  \A socket \in Sockets \ gone, p \in DOMAIN ps, q \in PublishedIds :
    (/\ RoundOpen
     /\ ps[p].socketId = socket /\ getPlayerBySocketId(Cur, socket) = p
     /\ q # p) =>
      \A R \in {onReconnect(Cur, socket, q), onJoinRoom(Cur, socket, q)} :
        \A i \in DOMAIN R.sent :
          socket \in R.sent[i].to => q \notin DOMAIN R.sent[i].cards

====
